---------------------------- MODULE Spec2Model ----------------------------
(***************************************************************************)
(* A model of publish.py: the reconciliation of a photo archive.           *)
(*                                                                         *)
(* The file system is one function fs from absolute paths (sequences of    *)
(* names, <<>> being "/") to entries.  File names are strings and every    *)
(* path computation of the program (suffix, stem, lower(), with_suffix,    *)
(* fnmatch of "*_small*" and "*.*", the date regular expression) is        *)
(* computed on the characters of the name.  One invocation of the program  *)
(* is a sequence of steps from Start to Finish; the actions fixup,         *)
(* missing, backup and a service name each have their steps.               *)
(***************************************************************************)
EXTENDS Integers, Sequences, FiniteSets, TLC

VARIABLES
    fs,        \* the file system: path -> entry
    pc,        \* where the process is: idle, loop, subdirs, small, links,
               \* sources, published, git, crashed (uncaught exception),
               \* failed (ProgramError, exit status 1) or killed
    run,       \* number of invocations of the program started so far
    queue,     \* Application.workdirs still to be reconciled in this run
    root,      \* Directory.rootdir of the directory being reconciled
    sources,   \* Directory.sources of the directory being reconciled
    made,      \* the directories created in this run ("Adding directory")
    calls,     \* the resize commands (os.system) issued in this run
    pairs,     \* what Directory.new_small_images yielded in this run
    index,     \* the paths the version control system tracks
    files,     \* Git.__files, the cached listing of the tracked paths
    start,     \* fs when the current (or the last) run started
    resizeFailed,  \* some resize command has returned a non-zero status
    args_action,  \* args.action of the invocation
    out,       \* the paths printed on standard output in this run
    hard,      \* the hard links made: <<new name, the name whose inode it shares>>
    adds,      \* the paths of the "git add -f" commands issued in this run
    retry,     \* the previews a resize command of the run before failed to
               \* make and that were absent when this run started
    replaced   \* the links of the "Replacing link" messages of this run

vars == <<fs, pc, run, queue, root, sources, made, calls, pairs, index, files,
          start, resizeFailed, args_action, out, hard, adds, retry,
          replaced>>

-----------------------------------------------------------------------------
(* Bounds of the model.                                                    *)

\* modification times of the files that exist before the first run
MaxMtime == 1
\* invocations of the program
MaxRuns == 2
\* symbolic links followed while resolving one path
MaxFollow == 3

-----------------------------------------------------------------------------
(* Strings: str methods and pathlib.PurePath name computations.            *)

Upper == "ABCDEFGHIJKLMNOPQRSTUVWXYZ"
Lower == "abcdefghijklmnopqrstuvwxyz"
Digits == "0123456789"

Char(s, i) == SubSeq(s, i, i)

\* c in s, for a one-character string c
InStr(c, s) == \E i \in 1..Len(s) : Char(s, i) = c

\* str.lower() of one character
LowerChar(c) ==
    IF \E i \in 1..Len(Upper) : Char(Upper, i) = c
    THEN Char(Lower, CHOOSE i \in 1..Len(Upper) : Char(Upper, i) = c)
    ELSE c

\* str.lower()
RECURSIVE StrLower(_)
StrLower(s) ==
    IF Len(s) = 0 THEN "" ELSE LowerChar(Char(s, 1)) \o StrLower(Tail(s))

\* str.rfind("."), 1-based, searched down from position i; 0 when there is none
RECURSIVE RFindDotFrom(_, _)
RFindDotFrom(s, i) ==
    IF i = 0 THEN 0
    ELSE IF Char(s, i) = "." THEN i
    ELSE RFindDotFrom(s, i - 1)

RFindDot(s) == RFindDotFrom(s, Len(s))

\* PurePath.suffix of a name
Suffix(name) ==
    LET i == RFindDot(name)
    IN  IF 1 < i /\ i < Len(name) THEN SubSeq(name, i, Len(name)) ELSE ""

\* PurePath.stem of a name
Stem(name) ==
    LET i == RFindDot(name)
    IN  IF 1 < i /\ i < Len(name) THEN SubSeq(name, 1, i - 1) ELSE name

\* PurePath.with_suffix(suffix), on the name
WithSuffix(name, suffix) == Stem(name) \o suffix

\* sub occurs in s
Contains(s, sub) ==
    \E i \in 1..(Len(s) - Len(sub) + 1) : SubSeq(s, i, i + Len(sub) - 1) = sub

\* fnmatch of "*_small*"
MatchSmall(name) == Contains(name, "_small")

\* fnmatch of "*.*"
MatchDot(name) == Contains(name, ".")


-----------------------------------------------------------------------------
(* Ordering of strings and paths (Python compares code points, and paths   *)
(* part by part).                                                          *)

\* the characters of the model's names, in code point order
Alphabet == "\n-." \o Digits \o Upper \o "_" \o Lower

Ord(c) == IF InStr(c, Alphabet)
          THEN CHOOSE i \in 1..Len(Alphabet) : Char(Alphabet, i) = c
          ELSE 0

\* a < b for strings
RECURSIVE StrLess(_, _)
StrLess(a, b) ==
    IF Len(b) = 0 THEN FALSE
    ELSE IF Len(a) = 0 THEN TRUE
    ELSE IF Char(a, 1) # Char(b, 1) THEN Ord(Char(a, 1)) < Ord(Char(b, 1))
    ELSE StrLess(Tail(a), Tail(b))

\* p < q for paths
RECURSIVE PathLess(_, _)
PathLess(p, q) ==
    IF Len(q) = 0 THEN FALSE
    ELSE IF Len(p) = 0 THEN TRUE
    ELSE IF Head(p) # Head(q) THEN StrLess(Head(p), Head(q))
    ELSE PathLess(Tail(p), Tail(q))

\* sorted(S) for a set of paths
RECURSIVE Sorted(_)
Sorted(S) ==
    IF S = {} THEN <<>>
    ELSE LET m == CHOOSE x \in S : \A y \in S \ {x} : PathLess(x, y)
         IN  <<m>> \o Sorted(S \ {m})

-----------------------------------------------------------------------------
(* The file system.  An entry is a directory, a plain file with its        *)
(* modification time, or a symbolic link with its target; a target is      *)
(* absolute or relative and a sequence of parts, ".." among them.          *)

Dir == [kind |-> "dir"]
File(t) == [kind |-> "file", mtime |-> t]
Link(target) == [kind |-> "link", target |-> target]

Rel(parts) == [abs |-> FALSE, parts |-> parts]
Abs(parts) == [abs |-> TRUE, parts |-> parts]

\* the result of a path that does not resolve
NoPath == <<"">>

Parent(p) == IF Len(p) = 0 THEN p ELSE SubSeq(p, 1, Len(p) - 1)
Name(p) == p[Len(p)]

RECURSIVE Real(_, _, _)
RECURSIVE Walk(_, _, _, _)

\* the kernel's walk along parts from directory cur
Walk(f, cur, parts, k) ==
    IF cur = NoPath THEN NoPath
    ELSE IF Len(parts) = 0 THEN cur
    ELSE IF Head(parts) = ".." THEN Walk(f, Parent(cur), Tail(parts), k)
    ELSE LET next == Append(cur, Head(parts))
         IN  IF Len(parts) = 1 THEN next
             ELSE LET d == Real(f, next, k)
                  IN  IF d # NoPath /\ f[d].kind = "dir"
                      THEN Walk(f, d, Tail(parts), k)
                      ELSE NoPath

\* the entry a path designates once its symbolic links are followed
Real(f, p, k) ==
    IF p \notin DOMAIN f THEN NoPath
    ELSE IF f[p].kind # "link" THEN p
    ELSE IF k = 0 THEN NoPath
    ELSE LET t == f[p].target
         IN  Real(f, Walk(f, IF t.abs THEN <<>> ELSE Parent(p), t.parts, k - 1), k - 1)

\* Path.exists()
Exists(f, p) == Real(f, p, MaxFollow) # NoPath

\* Path.is_dir()
IsDir(f, p) == Exists(f, p) /\ f[Real(f, p, MaxFollow)].kind = "dir"

\* Path.is_symlink()
IsSymlink(f, p) == p \in DOMAIN f /\ f[p].kind = "link"

\* (directory / target).exists(), the target read from a link in directory
TargetExists(f, directory, target) ==
    LET w == Walk(f, IF target.abs THEN <<>> ELSE directory, target.parts, MaxFollow)
    IN  Real(f, w, MaxFollow) # NoPath

\* Path.stat().st_mtime
Mtime(f, p) == f[Real(f, p, MaxFollow)].mtime

\* Path.glob("*") and Path.iterdir(): the entries of a directory
Children(f, d) ==
    IF IsDir(f, d)
    THEN LET r == Real(f, d, MaxFollow)
         IN  {Append(d, Name(p)) : p \in {q \in DOMAIN f : Len(q) = Len(r) + 1 /\ Parent(q) = r}}
    ELSE {}

\* Path.glob("*_small*")
GlobSmall(f, d) == {p \in Children(f, d) : MatchSmall(Name(p))}

\* the entries below d, at any depth
Below(f, d) == {p \in DOMAIN f : Len(p) > Len(d) /\ SubSeq(p, 1, Len(d)) = d}

\* what a call leaves: the file system, and whether it returned or raised
Done(f) == [fs |-> f, ok |-> TRUE]
Raised(f) == [fs |-> f, ok |-> FALSE]

\* the outcome of a loop that replaces links: Done and Raised with the
\* links of its log.info("Replacing link ...") messages
NoneReplaced(r) == [fs |-> r.fs, ok |-> r.ok, replaced |-> {}]
Replacing(path, r) == [fs |-> r.fs, ok |-> r.ok, replaced |-> {path} \cup r.replaced]

\* Path.mkdir(): the file system after it, and whether it raised
Mkdir(f, p) ==
    IF p \in DOMAIN f \/ ~IsDir(f, Parent(p))
    THEN Raised(f)
    ELSE [fs |-> (p :> Dir) @@ f, ok |-> TRUE]

\* Path.symlink_to(target): the file system after it, and whether it raised
SymlinkTo(f, p, target) ==
    IF p \in DOMAIN f \/ ~IsDir(f, Parent(p))
    THEN Raised(f)
    ELSE [fs |-> (p :> Link(target)) @@ f, ok |-> TRUE]

\* Path.unlink() of an entry that is no directory
Unlink(f, p) == [q \in DOMAIN f \ {p} |-> f[q]]

-----------------------------------------------------------------------------
(* Program constants.                                                      *)

ACTION_FIXUP == "fixup"
ACTION_MISSING == "missing"
ACTION_BACKUP == "backup"
known_actions == {ACTION_FIXUP, ACTION_MISSING, ACTION_BACKUP}

SOURCE_RAW == 1
SOURCE_JPEG == 2
\* what Directory.classify returns for an entry that is no source (None)
NoType == 0

CREATE == 1
UPDATE == 2
\* the action of a source whose preview is up to date (None)
NoAction == 0
SMALL_JPEG_WIDTH == 1024

\* args.services: the configured services, in order
known_subdirs == <<"test1", "test2">>

Months == <<"01", "02", "03", "04", "05", "06", "07", "08", "09", "10", "11", "12">>
Letters == <<"a", "b", "c", "d", "e", "f", "g", "h">>

-----------------------------------------------------------------------------
(* Application.all_workdirs and Application.workdirs.                      *)

\* re.match("^[0-9]{4}-[0-9]{2}-[0-9]{2}$", name): "$" also matches before a
\* newline that ends the string
IsDateName(name) ==
    /\ Len(name) \in {10, 11}
    /\ \A i \in {1, 2, 3, 4, 6, 7, 9, 10} : InStr(Char(name, i), Digits)
    /\ Char(name, 5) = "-"
    /\ Char(name, 8) = "-"
    /\ Len(name) = 11 => Char(name, 11) = "\n"

\* the month buckets that exist, or the path itself
ScanBases(f, path) ==
    LET found == SelectSeq([i \in 1..Len(Months) |-> Append(path, Months[i])],
                           LAMBDA m : Exists(f, m))
    IN  IF Len(found) = 0 THEN <<path>> ELSE found

\* roots(): the date-named entries of the scan bases
Roots(f, path) ==
    LET bases == ScanBases(f, path)
    IN  UNION {{c \in Children(f, bases[i]) : IsDateName(Name(c))} : i \in 1..Len(bases)}

\* iterdir() raises on a scan base that is no directory
RootsRaises(f, path) ==
    LET bases == ScanBases(f, path)
    IN  \E i \in 1..Len(bases) : ~IsDir(f, bases[i])

\* the lettered sub-roots of a date root, or the date root itself
SubRoots(f, path) ==
    LET found == SelectSeq([i \in 1..Len(Letters) |-> Append(path, Letters[i])],
                           LAMBDA q : Exists(f, q))
    IN  IF Len(found) = 0 THEN <<path>> ELSE found

RECURSIVE Flatten(_, _)
Flatten(f, paths) ==
    IF Len(paths) = 0 THEN <<>>
    ELSE SubRoots(f, Head(paths)) \o Flatten(f, Tail(paths))

\* Application.all_workdirs
all_workdirs(f, path) == Flatten(f, Sorted(Roots(f, path)))

\* Application.workdirs
workdirs(f, path) ==
    LET all == all_workdirs(f, path)
        pub == [i \in 1..Len(all) |-> Append(all[i], "publish")]
    IN  SelectSeq(pub, LAMBDA q : Exists(f, q))

-----------------------------------------------------------------------------
(* Directory.__init__, Directory.classify and the source images.           *)

\* Directory.classify comparing the suffix as it is written, without lower()
classify_CaseSensitive(f, path) ==
    IF IsSymlink(f, path)
    THEN LET ext == Suffix(Name(path))
         IN  IF ext \in {".jpg", ".jpeg"} THEN SOURCE_JPEG
             ELSE IF ext \in {".nef", ".cr3"} THEN SOURCE_RAW
             ELSE NoType
    ELSE NoType

\* Directory.classify
classify(f, path) ==
    IF IsSymlink(f, path)
    THEN LET ext == StrLower(Suffix(Name(path)))
         IN  IF ext \in {".jpg", ".jpeg"} THEN SOURCE_JPEG
             ELSE IF ext \in {".nef", ".cr3"} THEN SOURCE_RAW
             ELSE NoType
    ELSE NoType

\* Directory.__init__: the sources found in rootdir
Scan(f, rootdir) ==
    {[path |-> p, typ |-> classify(f, p)] :
        p \in {q \in Children(f, rootdir) : ~IsDir(f, q) /\ classify(f, q) # NoType}}

\* the first path of a sequence that exists, or the default
FirstExisting(f, paths, default) ==
    IF \E i \in 1..Len(paths) : Exists(f, paths[i])
    THEN paths[CHOOSE i \in 1..Len(paths) :
                 /\ Exists(f, paths[i])
                 /\ \A j \in 1..(i - 1) : ~Exists(f, paths[j])]
    ELSE default

\* RawSourceImage.large
RawLarge(f, p) ==
    FirstExisting(f,
        <<Append(Parent(p), WithSuffix(Name(p), ".JPG")),
          Append(Parent(p), WithSuffix(Name(p), ".jpg"))>>,
        Append(Parent(p), WithSuffix(Name(p), ".JPG")))

\* JpegSourceImage.large
JpegLarge(f, p) ==
    LET extensions == <<"jpg", "JPG", "jpeg", "JPEG">>
    IN  FirstExisting(f,
            [i \in 1..Len(extensions) |->
                Append(Parent(p), Stem(Name(p)) \o "_processed." \o extensions[i])],
            p)

\* source.large
Large(f, source) ==
    IF source.typ = SOURCE_RAW THEN RawLarge(f, source.path) ELSE JpegLarge(f, source.path)

\* source.small
Small(source) ==
    Append(Parent(source.path), Stem(Name(source.path)) \o "_small.jpg")

-----------------------------------------------------------------------------
(* The six steps of Directory.action_fixup.  Each takes the file system    *)
(* and returns the file system it leaves and whether it ran to its end     *)
(* (ok) or raised an exception nothing catches.                            *)

\* missing_subdirs looking at published only under a service directory
\* that was there (else written for the second if)
RECURSIVE AddMissingSubdirsFrom_Else(_, _, _)
AddMissingSubdirsFrom_Else(f, rootdir, i) ==
    IF i > Len(known_subdirs) THEN [fs |-> f, ok |-> TRUE, made |-> <<>>]
    ELSE LET path == Append(rootdir, known_subdirs[i])
             published == Append(path, "published")
             r == IF ~Exists(f, path) THEN Mkdir(f, path)
                  ELSE IF ~Exists(f, published) THEN Mkdir(f, published)
                  ELSE Done(f)
             m == IF ~Exists(f, path) THEN <<path>>
                  ELSE IF ~Exists(f, published) THEN <<published>>
                  ELSE <<>>
             rest == AddMissingSubdirsFrom_Else(r.fs, rootdir, i + 1)
         IN  IF ~r.ok THEN [fs |-> f, ok |-> FALSE, made |-> <<>>]
             ELSE [fs |-> rest.fs, ok |-> rest.ok, made |-> m \o rest.made]

\* Directory.missing_subdirs consumed by Directory.__add_missing_subdirs:
\* the generator tests a path only when the loop asks for the next one, so
\* after the loop has made the directories before it.  made lists the
\* directories created.
RECURSIVE AddMissingSubdirsFrom(_, _, _)
AddMissingSubdirsFrom(f, rootdir, i) ==
    IF i > Len(known_subdirs) THEN [fs |-> f, ok |-> TRUE, made |-> <<>>]
    ELSE LET path == Append(rootdir, known_subdirs[i])
             r1 == IF ~Exists(f, path) THEN Mkdir(f, path) ELSE Done(f)
             m1 == IF ~Exists(f, path) THEN <<path>> ELSE <<>>
             published == Append(path, "published")
             r2 == IF ~Exists(r1.fs, published) THEN Mkdir(r1.fs, published) ELSE Done(r1.fs)
             m2 == IF ~Exists(r1.fs, published) THEN <<published>> ELSE <<>>
             rest == AddMissingSubdirsFrom(r2.fs, rootdir, i + 1)
         IN  IF ~r1.ok THEN [fs |-> f, ok |-> FALSE, made |-> <<>>]
             ELSE IF ~r2.ok THEN [fs |-> r1.fs, ok |-> FALSE, made |-> m1]
             ELSE [fs |-> rest.fs, ok |-> rest.ok, made |-> m1 \o m2 \o rest.made]

\* Directory.__add_missing_subdirs
add_missing_subdirs(f, rootdir) == AddMissingSubdirsFrom(f, rootdir, 1)

\* __create_missing_small_images comparing the times with <=
SmallAction_NotNewer(f, source) ==
    LET large == Large(f, source)
        small == Small(source)
    IN  IF ~Exists(f, large) THEN NoAction
        ELSE IF Exists(f, small)
             THEN IF Mtime(f, small) <= Mtime(f, large) THEN UPDATE ELSE NoAction
             ELSE CREATE

\* __create_missing_small_images without the comparison of the times
SmallAction_Always(f, source) ==
    LET large == Large(f, source)
        small == Small(source)
    IN  IF ~Exists(f, large) THEN NoAction
        ELSE IF Exists(f, small) THEN UPDATE
        ELSE CREATE

\* the action __create_missing_small_images chooses for one source
SmallAction(f, source) ==
    LET large == Large(f, source)
        small == Small(source)
    IN  IF ~Exists(f, large) THEN NoAction
        ELSE IF Exists(f, small)
             THEN IF Mtime(f, small) < Mtime(f, large) THEN UPDATE ELSE NoAction
             ELSE CREATE

\* __create_missing_small_images leaving its loop at the first command
\* that fails
RECURSIVE create_missing_small_images_StopOnFailure(_, _, _, _, _)
create_missing_small_images_StopOnFailure(f, srcs, ret, t, i) ==
    IF i > Len(srcs) THEN [fs |-> f, calls |-> <<>>]
    ELSE LET action == SmallAction(f, srcs[i])
             small == Small(srcs[i])
             call == [source |-> srcs[i].path, action |-> action,
                      large |-> Large(f, srcs[i]), small |-> small,
                      width |-> SMALL_JPEG_WIDTH, ret |-> ret[i]]
             g == IF action # NoAction /\ ret[i] = 0
                  THEN (small :> File(t)) @@ f
                  ELSE f
             rest == create_missing_small_images_StopOnFailure(g, srcs, ret, t, i + 1)
         IN  IF action = NoAction THEN rest
             ELSE IF ret[i] # 0 THEN [fs |-> f, calls |-> <<call>>]
             ELSE [fs |-> rest.fs, calls |-> <<call>> \o rest.calls]

\* Directory.__create_missing_small_images: srcs in order, ret[i] the status
\* the resize command returns for source i when it is run, t the time
RECURSIVE create_missing_small_images(_, _, _, _, _)
create_missing_small_images(f, srcs, ret, t, i) ==
    IF i > Len(srcs) THEN [fs |-> f, calls |-> <<>>]
    ELSE LET action == SmallAction(f, srcs[i])
             small == Small(srcs[i])
             call == [source |-> srcs[i].path, action |-> action,
                      large |-> Large(f, srcs[i]), small |-> small,
                      width |-> SMALL_JPEG_WIDTH, ret |-> ret[i]]
             g == IF action # NoAction /\ ret[i] = 0
                  THEN (small :> File(t)) @@ f
                  ELSE f
             rest == create_missing_small_images(g, srcs, ret, t, i + 1)
         IN  IF action = NoAction THEN rest
             ELSE [fs |-> rest.fs, calls |-> <<call>> \o rest.calls]

\* Directory.existing_small, as names
ExistingSmallNames(f, srcs) ==
    {Name(Small(srcs[i])) : i \in {j \in 1..Len(srcs) : Exists(f, Small(srcs[j]))}}

\* new_small_images without its look into published
ManagedSmall_Direct(f, subdir) == {Name(q) : q \in GlobSmall(f, subdir)}

\* the names Directory.new_small_images finds managed in a service directory
ManagedSmall(f, subdir) ==
    LET d == Append(subdir, "published")
    IN  {Name(q) : q \in GlobSmall(f, subdir)}
        \cup (IF Exists(f, d) THEN {Name(q) : q \in GlobSmall(f, d)} ELSE {})

\* __add_new_small_files with the target built without its Path('..')
RECURSIVE LinkNames_SameDirectory(_, _, _)
LinkNames_SameDirectory(f, subdir, names) ==
    IF names = {} THEN Done(f)
    ELSE LET name == CHOOSE n \in names : TRUE
             r == SymlinkTo(f, Append(subdir, name), Rel(<<name>>))
         IN  IF ~r.ok THEN r ELSE LinkNames_SameDirectory(r.fs, subdir, names \ {name})

\* the loop body of __add_new_small_files for one service directory
RECURSIVE LinkNames(_, _, _)
LinkNames(f, subdir, names) ==
    IF names = {} THEN Done(f)
    ELSE LET name == CHOOSE n \in names : TRUE
             r == SymlinkTo(f, Append(subdir, name), Rel(<<"..", name>>))
         IN  IF ~r.ok THEN r ELSE LinkNames(r.fs, subdir, names \ {name})

\* new_small_images ending at its first pair (return written for yield)
RECURSIVE AddNewSmallFilesFrom_FirstPair(_, _, _, _)
AddNewSmallFilesFrom_FirstPair(f, rootdir, all_small, i) ==
    IF i > Len(known_subdirs) THEN [fs |-> f, ok |-> TRUE, pairs |-> <<>>]
    ELSE LET subdir == Append(rootdir, known_subdirs[i])
             new == all_small \ ManagedSmall(f, subdir)
         IN  IF ~Exists(f, subdir) \/ new = {}
             THEN AddNewSmallFilesFrom_FirstPair(f, rootdir, all_small, i + 1)
             ELSE LET r == LinkNames(f, subdir, new)
                  IN  [fs |-> r.fs, ok |-> r.ok,
                       pairs |-> <<[subdir |-> subdir, names |-> new]>>]

\* Directory.new_small_images consumed by Directory.__add_new_small_files:
\* all_small is computed once, the difference of each service directory when
\* the loop reaches it
RECURSIVE AddNewSmallFilesFrom(_, _, _, _)
AddNewSmallFilesFrom(f, rootdir, all_small, i) ==
    IF i > Len(known_subdirs) THEN [fs |-> f, ok |-> TRUE, pairs |-> <<>>]
    ELSE LET subdir == Append(rootdir, known_subdirs[i])
             new == all_small \ ManagedSmall(f, subdir)
         IN  IF ~Exists(f, subdir) \/ new = {}
             THEN AddNewSmallFilesFrom(f, rootdir, all_small, i + 1)
             ELSE LET r == LinkNames(f, subdir, new)
                      rest == AddNewSmallFilesFrom(r.fs, rootdir, all_small, i + 1)
                      pair == [subdir |-> subdir, names |-> new]
                  IN  IF ~r.ok THEN [fs |-> r.fs, ok |-> FALSE, pairs |-> <<pair>>]
                      ELSE [fs |-> rest.fs, ok |-> rest.ok, pairs |-> <<pair>> \o rest.pairs]

\* Directory.__add_new_small_files
add_new_small_files(f, rootdir, srcs) ==
    AddNewSmallFilesFrom(f, rootdir, ExistingSmallNames(f, srcs), 1)

\* __fixup_source_photos_links building the new target two levels up, as
\* step 5 does
RECURSIVE fixup_source_photos_links_TwoUp(_, _, _)
fixup_source_photos_links_TwoUp(f, srcs, i) ==
    IF i > Len(srcs) THEN NoneReplaced(Done(f))
    ELSE LET path == srcs[i].path
         IN  IF ~IsSymlink(f, path) THEN NoneReplaced(Raised(f))
             ELSE IF ~f[path].target.abs
             THEN fixup_source_photos_links_TwoUp(f, srcs, i + 1)
             ELSE LET r == SymlinkTo(Unlink(f, path), path, Rel(<<"..", "..", Name(path)>>))
                  IN  IF ~r.ok THEN Replacing(path, NoneReplaced(r))
                      ELSE Replacing(path, fixup_source_photos_links_TwoUp(r.fs, srcs, i + 1))

\* Directory.__fixup_source_photos_links
RECURSIVE fixup_source_photos_links(_, _, _)
fixup_source_photos_links(f, srcs, i) ==
    IF i > Len(srcs) THEN NoneReplaced(Done(f))
    ELSE LET path == srcs[i].path
         IN  IF ~IsSymlink(f, path) THEN NoneReplaced(Raised(f))
             ELSE IF ~f[path].target.abs
             THEN fixup_source_photos_links(f, srcs, i + 1)
             ELSE LET r == SymlinkTo(Unlink(f, path), path, Rel(<<"..", Name(path)>>))
                  IN  IF ~r.ok THEN Replacing(path, NoneReplaced(r))
                      ELSE Replacing(path, fixup_source_photos_links(r.fs, srcs, i + 1))

\* __fixup_published_links testing link.is_absolute(), as step 4 does,
\* where it tests that the target exists
RECURSIVE FixLinks_Absolute(_, _)
FixLinks_Absolute(f, paths) ==
    IF paths = {} THEN NoneReplaced(Done(f))
    ELSE LET path == CHOOSE q \in paths : TRUE
         IN  IF ~IsSymlink(f, path) THEN NoneReplaced(Raised(f))
             ELSE IF ~f[path].target.abs
             THEN FixLinks_Absolute(f, paths \ {path})
             ELSE LET r == SymlinkTo(Unlink(f, path), path, Rel(<<"..", "..", Name(path)>>))
                  IN  IF ~r.ok THEN Replacing(path, NoneReplaced(r))
                      ELSE Replacing(path, FixLinks_Absolute(r.fs, paths \ {path}))

\* __fixup_published_links replacing a link only when the new target
\* exists
RECURSIVE FixLinks_Checked(_, _)
FixLinks_Checked(f, paths) ==
    IF paths = {} THEN NoneReplaced(Done(f))
    ELSE LET path == CHOOSE q \in paths : TRUE
         IN  IF ~IsSymlink(f, path) THEN NoneReplaced(Raised(f))
             ELSE IF \/ TargetExists(f, Parent(path), f[path].target)
                     \/ ~TargetExists(f, Parent(path), Rel(<<"..", "..", Name(path)>>))
             THEN FixLinks_Checked(f, paths \ {path})
             ELSE LET r == SymlinkTo(Unlink(f, path), path, Rel(<<"..", "..", Name(path)>>))
                  IN  IF ~r.ok THEN Replacing(path, NoneReplaced(r))
                      ELSE Replacing(path, FixLinks_Checked(r.fs, paths \ {path}))

\* the loop body of __fixup_published_links for the links of one directory
RECURSIVE FixLinks(_, _)
FixLinks(f, paths) ==
    IF paths = {} THEN NoneReplaced(Done(f))
    ELSE LET path == CHOOSE q \in paths : TRUE
         IN  IF ~IsSymlink(f, path) THEN NoneReplaced(Raised(f))
             ELSE IF TargetExists(f, Parent(path), f[path].target)
             THEN FixLinks(f, paths \ {path})
             ELSE LET r == SymlinkTo(Unlink(f, path), path, Rel(<<"..", "..", Name(path)>>))
                  IN  IF ~r.ok THEN Replacing(path, NoneReplaced(r))
                      ELSE Replacing(path, FixLinks(r.fs, paths \ {path}))

\* __fixup_published_links going through the links of the service
\* directories, where published_small globs their published directories
RECURSIVE FixupPublishedLinksFrom_Service(_, _, _)
FixupPublishedLinksFrom_Service(f, rootdir, i) ==
    IF i > Len(known_subdirs) THEN NoneReplaced(Done(f))
    ELSE LET d == Append(rootdir, known_subdirs[i])
         IN  IF ~Exists(f, d) THEN FixupPublishedLinksFrom_Service(f, rootdir, i + 1)
             ELSE LET r == FixLinks(f, GlobSmall(f, d))
                      rest == FixupPublishedLinksFrom_Service(r.fs, rootdir, i + 1)
                  IN  IF ~r.ok THEN r
                      ELSE [rest EXCEPT !.replaced = r.replaced \cup @]

\* Directory.published_small consumed by Directory.__fixup_published_links
RECURSIVE FixupPublishedLinksFrom(_, _, _)
FixupPublishedLinksFrom(f, rootdir, i) ==
    IF i > Len(known_subdirs) THEN NoneReplaced(Done(f))
    ELSE LET d == Append(Append(rootdir, known_subdirs[i]), "published")
         IN  IF ~Exists(f, d) THEN FixupPublishedLinksFrom(f, rootdir, i + 1)
             ELSE LET r == FixLinks(f, GlobSmall(f, d))
                      rest == FixupPublishedLinksFrom(r.fs, rootdir, i + 1)
                  IN  IF ~r.ok THEN r
                      ELSE [rest EXCEPT !.replaced = r.replaced \cup @]

\* Directory.__fixup_published_links
fixup_published_links(f, rootdir) == FixupPublishedLinksFrom(f, rootdir, 1)

\* the paths Directory.__add_files_to_repository hands to git.add_file:
\* rootdir.glob("**/*.*") that are symbolic links
RepositoryCandidates(f, rootdir) ==
    {q \in Below(f, rootdir) : MatchDot(Name(q)) /\ IsSymlink(f, q)}

\* a path as "git ls-files" prints it and as the index holds it: relative to
\* the work tree
InWorkTree(worktree, q) == SubSeq(q, Len(worktree) + 1, Len(q))

\* Git.add_file for each of them: "git add -f" is run for a path that is not
\* in Git.files; the test compares the path as the program built it,
\* args.path included, with the paths of the listing
AddCommands(f, rootdir, listed) ==
    {q \in RepositoryCandidates(f, rootdir) : q \notin listed}

\* Directory.__add_files_to_repository: the index it leaves
add_files_to_repository(f, rootdir, worktree, listed, tracked) ==
    tracked \cup {InWorkTree(worktree, q) : q \in AddCommands(f, rootdir, listed)}

-----------------------------------------------------------------------------
(* The other actions of a Directory: missing, a service name, backup.      *)

\* action_print_missing testing the source link where it tests the large
\* artifact
print_missing_SourceExists(f, srcs) ==
    LET missing == SelectSeq(srcs, LAMBDA s : ~Exists(f, s.path))
    IN  [i \in 1..Len(missing) |-> missing[i].path]

\* Directory.action_print_missing: the paths it prints, in the order of
\* the sources
print_missing(f, srcs) ==
    LET missing == SelectSeq(srcs, LAMBDA s : ~Exists(f, Large(f, s)))
    IN  [i \in 1..Len(missing) |-> missing[i].path]

\* action_not_published walking the service directory at every depth
not_published_Recursive(f, rootdir, service) ==
    LET d == Append(rootdir, service)
    IN  IF ~Exists(f, d) THEN {} ELSE {p \in Below(f, d) : IsSymlink(f, p)}

\* Directory.action_not_published: the paths it prints, d.glob("*") that
\* are symbolic links
not_published(f, rootdir, service) ==
    LET d == Append(rootdir, service)
    IN  IF ~Exists(f, d) THEN {} ELSE {p \in Children(f, d) : IsSymlink(f, p)}

\* Path.link_to(target), os.link(self, target): the new name shares the
\* inode of the old one.  link(2) does not follow a symbolic link: applied
\* to one it gives the new name to the link itself.
LinkTo(f, h, p, target) ==
    IF \/ p \notin DOMAIN f
       \/ target \in DOMAIN f
       \/ ~IsDir(f, Parent(target))
    THEN [fs |-> f, hard |-> h, ok |-> FALSE]
    ELSE [fs |-> (target :> f[p]) @@ f, hard |-> h \cup {<<target, p>>}, ok |-> TRUE]

RECURSIVE BackupFrom(_, _, _, _, _)
\* the loop of Directory.action_backup_source_photos from source i on
BackupFrom(f, h, bakdir, srcs, i) ==
    IF i > Len(srcs) THEN [fs |-> f, hard |-> h, ok |-> TRUE]
    ELSE LET backup == Append(bakdir, Name(srcs[i].path))
         IN  IF Exists(f, backup) THEN BackupFrom(f, h, bakdir, srcs, i + 1)
             ELSE LET r == LinkTo(f, h, srcs[i].path, backup)
                  IN  IF ~r.ok THEN r ELSE BackupFrom(r.fs, r.hard, bakdir, srcs, i + 1)

\* Directory.action_backup_source_photos
backup_source_photos(f, h, rootdir, srcs) ==
    LET bakdir == Append(rootdir, ".backup")
        m == IF Exists(f, bakdir) THEN Done(f) ELSE Mkdir(f, bakdir)
    IN  IF ~m.ok THEN [fs |-> f, hard |-> h, ok |-> FALSE]
        ELSE BackupFrom(m.fs, h, bakdir, srcs, 1)

-----------------------------------------------------------------------------
(* The archive the runs work on.                                           *)

\* args.path, an absolute path as in the tests
ArgsPath == <<"arch">>
DateDir == <<"arch", "2022-01-01">>
PublishDir == <<"arch", "2022-01-01", "publish">>
\* where the archive was mounted when stale absolute links were made
OldMount == <<"mnt">>

\* Git.__files before the first listing (None)
NoFiles == {NoPath}

\* the time of the current run: later than every initial modification time
Now == MaxMtime + run

Times == 0..MaxMtime

\* the function of a set of <<path, entry>> pairs
Tree(S) == [p \in {x[1] : x \in S} |-> (CHOOSE x \in S : x[1] = p)[2]]

One(path, entry) == {<<path, entry>>}
In(directory, name, entry) == {<<Append(directory, name), entry>>}

HasLink(S) == \E x \in S : x[2].kind = "link"
HasAbsLink(S) == \E x \in S : x[2].kind = "link" /\ x[2].target.abs

\* a link as the program makes it, or a stale absolute one
LinkOpts(directory, name, ups) ==
    {{}} \cup {In(directory, name, Link(t)) :
                 t \in {Rel(ups \o <<name>>), Abs(Append(OldMount, name))}}

\* a link as the program makes it
RelLinkOpts(directory, names, ups) ==
    {UNION {In(directory, n, Link(Rel(ups \o <<n>>))) : n \in chosen} :
        chosen \in SUBSET names}

FileOpts(directory, name, times) ==
    {{}} \cup {In(directory, name, File(t)) : t \in times}

\* the original a source link designates, beside the publish directory
OriginalOpts(link, name) ==
    IF HasLink(link) THEN FileOpts(DateDir, name, {0}) ELSE {{}}

\* the old mount point: gone, or still holding the files
MountOpts(S) ==
    IF HasAbsLink(S)
    THEN {{}, One(OldMount, Dir)
              \cup In(OldMount, "DSC1.NEF", File(0))
              \cup In(OldMount, "DSC1.JPG", File(0))
              \cup In(OldMount, "DSC1_small.jpg", File(0))}
    ELSE {{}}

BaseTree ==
    One(<<>>, Dir) \cup One(ArgsPath, Dir) \cup One(DateDir, Dir) \cup One(PublishDir, Dir)

ServiceDir(i) == Append(PublishDir, known_subdirs[i])

\* a service directory: missing, without its published child, or with it
PlainServiceOpts(subdir) ==
    {{}, One(subdir, Dir), One(subdir, Dir) \cup In(subdir, "published", Dir)}

\* a service directory: missing, or holding links to one preview, current
\* or stale
ServiceOpts(subdir) ==
    {{}}
    \cup {One(subdir, Dir) \cup l \cup d :
            l \in LinkOpts(subdir, "DSC1_small.jpg", <<"..">>),
            d \in {{}} \cup {In(subdir, "published", Dir) \cup pl :
                     pl \in LinkOpts(Append(subdir, "published"), "DSC1_small.jpg",
                                     <<"..", "..">>)}}

\* a service directory: missing, or with its published child, holding links
\* to some of the previews
PairServiceOpts(subdir, names) ==
    {{}} \cup {One(subdir, Dir) \cup In(subdir, "published", Dir) \cup l \cup pl :
                 l \in RelLinkOpts(subdir, names, <<"..">>),
                 pl \in RelLinkOpts(Append(subdir, "published"), names, <<"..", "..">>)}

\* one photo in every state (raw and jpeg source links, current or stale,
\* originals, large artifacts and preview of every age) over plain service
\* directories
PhotoTrees ==
    UNION {
      UNION {
        LET inside == BaseTree \cup nef \cup jpg \cup processed \cup small \cup s1 \cup s2
        IN  {inside \cup o1 \cup o2 \cup m :
                o1 \in OriginalOpts(nef, "DSC1.NEF"),
                o2 \in OriginalOpts(jpg, "DSC1.JPG"),
                m \in MountOpts(inside)} :
        processed \in (IF HasLink(jpg)
                       THEN FileOpts(PublishDir, "DSC1_processed.jpg", Times)
                       ELSE {{}}) } :
      nef \in LinkOpts(PublishDir, "DSC1.NEF", <<"..">>),
      jpg \in LinkOpts(PublishDir, "DSC1.JPG", <<"..">>)
              \cup FileOpts(PublishDir, "DSC1.JPG", Times),
      small \in FileOpts(PublishDir, "DSC1_small.jpg", {0}),
      s1 \in PlainServiceOpts(ServiceDir(1)),
      s2 \in PlainServiceOpts(ServiceDir(2)) \ {One(ServiceDir(2), Dir)} }

\* service directories in every state (links and published links to the
\* preview, current or stale) over one jpeg source whose original exists
ServiceTrees ==
    UNION {
      LET inside == BaseTree \cup jpg \cup small \cup s1 \cup s2
      IN  {inside \cup o \cup m :
              o \in FileOpts(DateDir, "DSC1.JPG", {0}) \ {{}}, m \in MountOpts(inside)} :
      jpg \in LinkOpts(PublishDir, "DSC1.JPG", <<"..">>) \ {{}},
      small \in FileOpts(PublishDir, "DSC1_small.jpg", {0}),
      s1 \in ServiceOpts(ServiceDir(1)),
      s2 \in ServiceOpts(ServiceDir(2)) }

\* two photos, a jpeg source and a raw source, whose previews are linked
\* into the service directories in every combination
PairNames == {"DSC1_small.jpg", "DSC2_small.jpg"}

PairTrees ==
    { BaseTree \cup In(PublishDir, "DSC1.JPG", Link(Rel(<<"..", "DSC1.JPG">>)))
               \cup In(PublishDir, "DSC2.NEF", Link(Rel(<<"..", "DSC2.NEF">>)))
               \cup In(DateDir, "DSC2.NEF", File(0))
               \cup small1 \cup small2 \cup s1 \cup s2 :
      small1 \in FileOpts(PublishDir, "DSC1_small.jpg", {0}),
      small2 \in FileOpts(PublishDir, "DSC2_small.jpg", {0}),
      s1 \in PairServiceOpts(ServiceDir(1), PairNames),
      s2 \in PairServiceOpts(ServiceDir(2), PairNames) }

\* a service name or a published name taken by something that is no
\* directory: a plain file, a dangling link
StrayServiceOpts(subdir) ==
    {One(subdir, Dir) \cup In(subdir, "published", File(0)),
     One(subdir, File(0)),
     One(subdir, Link(Abs(<<"mnt", "gone">>)))}

StrayTrees ==
    { BaseTree \cup In(PublishDir, "DSC1.JPG", Link(Rel(<<"..", "DSC1.JPG">>)))
               \cup In(DateDir, "DSC1.JPG", File(0))
               \cup small \cup s1 \cup s2 :
      small \in FileOpts(PublishDir, "DSC1_small.jpg", {0}),
      s1 \in StrayServiceOpts(ServiceDir(1)),
      s2 \in PlainServiceOpts(ServiceDir(2)) }

InitTrees == PhotoTrees \cup ServiceTrees \cup PairTrees \cup StrayTrees

Init ==
    /\ \E t \in InitTrees : fs = Tree(t)
    /\ pc = "idle"
    /\ run = 0
    /\ queue = <<>>
    /\ root = NoPath
    /\ sources = <<>>
    /\ made = <<>>
    /\ calls = <<>>
    /\ pairs = <<>>
    /\ index = {}
    /\ files = NoFiles
    /\ start = fs
    /\ resizeFailed = FALSE
    /\ args_action = ACTION_FIXUP
    /\ out = <<>>
    /\ hard = {}
    /\ adds = {}
    /\ retry = {}
    /\ replaced = {}

-----------------------------------------------------------------------------
(* The actions: one invocation of the program with the action fixup.       *)

\* the orders in which glob("*") may hand out a set of entries
Orders(S) ==
    {o \in [1..Cardinality(S) -> S] : \A i, j \in DOMAIN o : i # j => o[i] # o[j]}

\* main and Application.run, up to the loop over Application.workdirs of
\* the action
Invoke ==
    /\ pc \in {"idle", "crashed", "failed", "killed"}
    /\ run' = run + 1
    /\ start' = fs
    /\ made' = <<>>
    /\ calls' = <<>>
    /\ pairs' = <<>>
    /\ files' = NoFiles
    /\ root' = NoPath
    /\ sources' = <<>>
    /\ IF RootsRaises(fs, ArgsPath)
       THEN pc' = "crashed" /\ queue' = <<>>
       ELSE pc' = "loop" /\ queue' = workdirs(fs, ArgsPath)
    /\ out' = <<>>
    /\ adds' = {}
    /\ retry' = {calls[k].small : k \in {n \in DOMAIN calls :
                      calls[n].ret # 0 /\ ~Exists(fs, calls[n].small)}}
    /\ replaced' = {}
    /\ UNCHANGED <<fs, index, resizeFailed, args_action, hard>>

\* the program is started, MaxRuns times at most
Start ==
    /\ run < MaxRuns
    /\ Invoke

\* the loop of Application.action_fixup takes the next directory:
\* Directory(workdir, self.args.services)
NextWorkdir ==
    /\ pc = "loop"
    /\ args_action = ACTION_FIXUP
    /\ queue # <<>>
    /\ root' = Head(queue)
    /\ queue' = Tail(queue)
    /\ sources' \in Orders(Scan(fs, Head(queue)))
    /\ pc' = "subdirs"
    /\ UNCHANGED <<fs, run, made, calls, pairs, index, files, start, resizeFailed,
                   args_action, out, hard, adds, retry, replaced>>

\* the loop of the action ends and the process exits
Finish ==
    /\ pc = "loop"
    /\ queue = <<>>
    /\ pc' = "idle"
    /\ UNCHANGED <<fs, run, queue, root, sources, made, calls, pairs, index, files,
                   start, resizeFailed,
                   args_action, out, hard, adds, retry, replaced>>

\* step 1
AddMissingSubdirs ==
    /\ pc = "subdirs"
    /\ LET r == add_missing_subdirs(fs, root)
       IN  /\ fs' = r.fs
           /\ made' = made \o r.made
           /\ pc' = IF r.ok THEN "small" ELSE "crashed"
    /\ UNCHANGED <<run, queue, root, sources, calls, pairs, index, files, start,
                   resizeFailed,
                   args_action, out, hard, adds, retry, replaced>>

\* step 2: every resize command may succeed (0) or fail (1)
CreateMissingSmallImages ==
    /\ pc = "small"
    /\ \E ret \in [1..Len(sources) -> {0, 1}] :
          LET r == create_missing_small_images(fs, sources, ret, Now, 1)
          IN  /\ fs' = r.fs
              /\ calls' = calls \o r.calls
              /\ resizeFailed' =
                    (resizeFailed \/ \E i \in 1..Len(r.calls) : r.calls[i].ret # 0)
    /\ pc' = "links"
    /\ UNCHANGED <<run, queue, root, sources, made, pairs, index, files, start,
                   args_action, out, hard, adds, retry, replaced>>

\* step 3
AddNewSmallFiles ==
    /\ pc = "links"
    /\ LET r == add_new_small_files(fs, root, sources)
       IN  /\ fs' = r.fs
           /\ pairs' = pairs \o r.pairs
           /\ pc' = IF r.ok THEN "sources" ELSE "crashed"
    /\ UNCHANGED <<run, queue, root, sources, made, calls, index, files, start,
                   resizeFailed,
                   args_action, out, hard, adds, retry, replaced>>

\* step 4
FixupSourcePhotosLinks ==
    /\ pc = "sources"
    /\ LET r == fixup_source_photos_links(fs, sources, 1)
       IN  /\ fs' = r.fs
           /\ replaced' = replaced \cup r.replaced
           /\ pc' = IF r.ok THEN "published" ELSE "crashed"
    /\ UNCHANGED <<run, queue, root, sources, made, calls, pairs, index, files, start,
                   resizeFailed,
                   args_action, out, hard, adds, retry>>

\* step 5
FixupPublishedLinks ==
    /\ pc = "published"
    /\ LET r == fixup_published_links(fs, root)
       IN  /\ fs' = r.fs
           /\ replaced' = replaced \cup r.replaced
           /\ pc' = IF r.ok THEN "git" ELSE "crashed"
    /\ UNCHANGED <<run, queue, root, sources, made, calls, pairs, index, files, start,
                   resizeFailed,
                   args_action, out, hard, adds, retry>>

\* step 6: Git.files lists the tracked paths the first time it is read
AddFilesToRepository ==
    /\ pc = "git"
    /\ LET listed == IF files = NoFiles /\ RepositoryCandidates(fs, root) # {}
                     THEN index ELSE files
       IN  /\ files' = listed
           /\ adds' = adds \cup AddCommands(fs, root, listed)
           /\ index' = add_files_to_repository(fs, root, ArgsPath, listed, index)
    /\ pc' = "loop"
    /\ UNCHANGED <<fs, run, queue, root, sources, made, calls, pairs, start, resizeFailed,
                   args_action, out, hard, retry, replaced>>

Next ==
    \/ Start
    \/ NextWorkdir
    \/ Finish
    \/ AddMissingSubdirs
    \/ CreateMissingSmallImages
    \/ AddNewSmallFiles
    \/ FixupSourcePhotosLinks
    \/ FixupPublishedLinks
    \/ AddFilesToRepository

Spec == Init /\ [][Next]_vars

-----------------------------------------------------------------------------
(* Scanning: the program run on publish directories that hold entries of   *)
(* every kind under names with every sort of extension.                    *)

\* names whose suffix is a raw one, or a jpeg one, in some letter case
RawNames == {"a.nef", "a.NEF", "a.Nef", "b.cr3", "b.CR3", "b.cR3"}
JpegNames == {"c.jpg", "c.JPG", "c.JpG", "d.jpeg", "d.JPEG", "d.jPeG"}
\* names with another suffix, or with none
OtherNames == {"e.png", "e.txt", "f", "g.jpg.bak", "h.nef_", ".jpg", "i.jpg."}
ScanNames == RawNames \cup JpegNames \cup OtherNames

\* an entry of the publish directory under a name: a link to a file, a
\* dangling link, a link to a directory, a plain file, a directory
EntryOpts(name) ==
    {In(PublishDir, name, Link(Rel(<<"..", name>>))) \cup In(DateDir, name, File(0)),
     In(PublishDir, name, Link(Rel(<<"..", name>>))),
     In(PublishDir, name, Link(Rel(<<"..">>))),
     In(PublishDir, name, File(0)),
     In(PublishDir, name, Dir)}

ScanTrees ==
    UNION {{BaseTree \cup e \cup other : e \in EntryOpts(name)} :
             name \in ScanNames,
             other \in {{}, In(PublishDir, "x.nef", Link(Rel(<<"..", "x.nef">>)))
                              \cup In(DateDir, "x.JPG", File(0))}}

InitScan ==
    /\ \E t \in ScanTrees : fs = Tree(t)
    /\ pc = "idle"
    /\ run = 0
    /\ queue = <<>>
    /\ root = NoPath
    /\ sources = <<>>
    /\ made = <<>>
    /\ calls = <<>>
    /\ pairs = <<>>
    /\ index = {}
    /\ files = NoFiles
    /\ start = fs
    /\ resizeFailed = FALSE
    /\ args_action = ACTION_FIXUP
    /\ out = <<>>
    /\ hard = {}
    /\ adds = {}
    /\ retry = {}
    /\ replaced = {}

SpecScan == InitScan /\ [][Next]_vars

-----------------------------------------------------------------------------
(* Discovery: the program run on archives of both layouts, flat and in     *)
(* month buckets, with date directories of every shape.                    *)

\* what a date name may hold: nothing there, a directory without publish,
\* one with publish, one with lettered sub-roots (a and h with publish, c
\* without), a plain file
DateShapes(d) ==
    {{},
     One(d, Dir),
     One(d, Dir) \cup In(d, "publish", Dir),
     One(d, Dir) \cup In(d, "publish", Dir)
        \cup In(d, "a", Dir) \cup In(Append(d, "a"), "publish", Dir)
        \cup In(d, "c", Dir)
        \cup In(d, "h", Dir) \cup In(Append(d, "h"), "publish", Dir),
     One(d, File(0))}

\* a second entry of the archive: a later date, a date name followed by a
\* newline, names that are no date names
OtherEntryNames == {"2022-01-02", "2022-01-01\n", "2022-01-011", "2022_01_01"}

OtherOpts(base) ==
    {{}} \cup {In(base, n, Dir) \cup In(Append(base, n), "publish", Dir) : n \in OtherEntryNames}

\* a month bucket: not there, a directory holding a date name
BucketOpts(month, date) ==
    {{}} \cup {One(Append(ArgsPath, month), Dir) \cup shape :
                 shape \in DateShapes(<<ArgsPath[1], month, date>>)}

WorkdirTrees ==
    { One(<<>>, Dir) \cup One(ArgsPath, Dir) \cup flat \cup other \cup m1 \cup m2 :
      flat \in DateShapes(Append(ArgsPath, "2022-01-01")),
      other \in OtherOpts(ArgsPath),
      m1 \in BucketOpts("01", "2022-01-02"),
      m2 \in BucketOpts("02", "2022-01-01") \cup {One(Append(ArgsPath, "02"), File(0))} }

InitWorkdirs ==
    /\ \E t \in WorkdirTrees : fs = Tree(t)
    /\ pc = "idle"
    /\ run = 0
    /\ queue = <<>>
    /\ root = NoPath
    /\ sources = <<>>
    /\ made = <<>>
    /\ calls = <<>>
    /\ pairs = <<>>
    /\ index = {}
    /\ files = NoFiles
    /\ start = fs
    /\ resizeFailed = FALSE
    /\ args_action = ACTION_FIXUP
    /\ out = <<>>
    /\ hard = {}
    /\ adds = {}
    /\ retry = {}
    /\ replaced = {}

SpecWorkdirs == InitWorkdirs /\ [][Next]_vars

-----------------------------------------------------------------------------
(* The other actions: one invocation of the program with missing, with a   *)
(* service name or with backup, on publish directories made for each.      *)

\* the loop of Application.action_print_missing takes the next directory:
\* Directory(workdir, self.args.services).action_print_missing()
PrintMissing ==
    /\ pc = "loop"
    /\ args_action = ACTION_MISSING
    /\ queue # <<>>
    /\ root' = Head(queue)
    /\ queue' = Tail(queue)
    /\ sources' \in Orders(Scan(fs, Head(queue)))
    /\ out' = out \o print_missing(fs, sources')
    /\ UNCHANGED <<fs, pc, run, made, calls, pairs, index, files, start, resizeFailed,
                   args_action, hard, adds, retry, replaced>>

\* the loop of Application.action_not_published takes the next directory:
\* Directory(workdir, self.args.services).action_not_published(service)
NotPublished ==
    /\ pc = "loop"
    /\ args_action \notin known_actions
    /\ queue # <<>>
    /\ root' = Head(queue)
    /\ queue' = Tail(queue)
    /\ sources' \in Orders(Scan(fs, Head(queue)))
    /\ \E printed \in Orders(not_published(fs, Head(queue), args_action)) :
          out' = out \o printed
    /\ UNCHANGED <<fs, pc, run, made, calls, pairs, index, files, start, resizeFailed,
                   args_action, hard, adds, retry, replaced>>

\* the loop of Application.action_backup_source_photos takes the next
\* directory: Directory(workdir, ...).action_backup_source_photos()
BackupSourcePhotos ==
    /\ pc = "loop"
    /\ args_action = ACTION_BACKUP
    /\ queue # <<>>
    /\ root' = Head(queue)
    /\ queue' = Tail(queue)
    /\ sources' \in Orders(Scan(fs, Head(queue)))
    /\ LET r == backup_source_photos(fs, hard, Head(queue), sources')
       IN  /\ fs' = r.fs
           /\ hard' = r.hard
           /\ pc' = IF r.ok THEN "loop" ELSE "crashed"
    /\ UNCHANGED <<run, made, calls, pairs, index, files, start, resizeFailed,
                   args_action, out, adds, retry, replaced>>

\* the names a processed photo may bear; the last is none JpegSourceImage
\* looks for
ProcessedNames ==
    {"DSC2_processed.jpg", "DSC2_processed.JPG", "DSC2_processed.jpeg",
     "DSC2_processed.JPEG", "DSC2_processed.Jpg"}

\* a raw source with and without a jpeg beside it (a file, or a jpeg source
\* link) and a jpeg source with and without a processed photo, the links
\* resolving or dangling
MissingTrees ==
    UNION {
      {BaseTree \cup In(PublishDir, "DSC1.NEF", Link(Rel(<<"..", "DSC1.NEF">>)))
                \cup In(PublishDir, "DSC2.JPG", Link(Rel(<<"..", "DSC2.JPG">>)))
                \cup o1 \cup o2 \cup upper \cup lower \cup processed \cup o3 :
          o3 \in OriginalOpts(upper, "DSC1.JPG")} :
      o1 \in FileOpts(DateDir, "DSC1.NEF", {0}),
      o2 \in FileOpts(DateDir, "DSC2.JPG", {0}),
      upper \in FileOpts(PublishDir, "DSC1.JPG", {0})
                \cup {In(PublishDir, "DSC1.JPG", Link(Rel(<<"..", "DSC1.JPG">>)))},
      lower \in FileOpts(PublishDir, "DSC1.jpg", {0}),
      processed \in {{}} \cup {In(PublishDir, n, File(0)) : n \in ProcessedNames} }

\* a service directory as the service action may find it: missing, a plain
\* file, a dangling link, or a directory holding preview links, a link to
\* a directory, a plain file and published links
NotPublishedOpts(subdir) ==
    {{}, One(subdir, File(0)), One(subdir, Link(Abs(<<"mnt", "gone">>)))}
    \cup {One(subdir, Dir) \cup l \cup alias \cup plain \cup pub :
            l \in RelLinkOpts(subdir, PairNames, <<"..">>),
            alias \in {{}, In(subdir, "latest", Link(Rel(<<"published">>)))},
            plain \in FileOpts(subdir, "notes.txt", {0}),
            pub \in {{}} \cup {In(subdir, "published", Dir) \cup pl :
                       pl \in RelLinkOpts(Append(subdir, "published"), PairNames,
                                          <<"..", "..">>)}}

NotPublishedTrees ==
    {BaseTree \cup s1 \cup s2 :
        s1 \in NotPublishedOpts(ServiceDir(1)),
        s2 \in {{}, One(ServiceDir(2), Dir)
                      \cup In(ServiceDir(2), "DSC1_small.jpg",
                              Link(Rel(<<"..", "DSC1_small.jpg">>)))}}

BackupDir == Append(PublishDir, ".backup")

\* the backup directory: missing, empty, holding an entry of the name of a
\* source, or a plain file
BackupOpts ==
    {{}, One(BackupDir, Dir), One(BackupDir, Dir) \cup In(BackupDir, "DSC1.NEF", File(0)),
     One(BackupDir, File(0))}

\* a raw source whose link is current or stale, resolves or dangles, with
\* or without a second source
BackupTrees ==
    UNION {
      {BaseTree \cup nef \cup o1 \cup jpg \cup m \cup bak : m \in MountOpts(nef)} :
      nef \in LinkOpts(PublishDir, "DSC1.NEF", <<"..">>) \ {{}},
      o1 \in FileOpts(DateDir, "DSC1.NEF", {0}),
      jpg \in {{}, In(PublishDir, "DSC2.JPG", Link(Rel(<<"..", "DSC2.JPG">>)))
                       \cup In(DateDir, "DSC2.JPG", File(0))},
      bak \in BackupOpts }

\* the archives made for an action
ActionTrees(a) ==
    IF a = ACTION_MISSING THEN MissingTrees
    ELSE IF a = ACTION_BACKUP THEN BackupTrees
    ELSE NotPublishedTrees

InitActions ==
    /\ args_action \in {ACTION_MISSING, ACTION_BACKUP}
                       \cup {known_subdirs[i] : i \in 1..Len(known_subdirs)}
    /\ \E t \in ActionTrees(args_action) : fs = Tree(t)
    /\ pc = "idle"
    /\ run = 0
    /\ queue = <<>>
    /\ root = NoPath
    /\ sources = <<>>
    /\ made = <<>>
    /\ calls = <<>>
    /\ pairs = <<>>
    /\ index = {}
    /\ files = NoFiles
    /\ start = fs
    /\ resizeFailed = FALSE
    /\ out = <<>>
    /\ hard = {}
    /\ adds = {}
    /\ retry = {}
    /\ replaced = {}

NextActions ==
    \/ Start
    \/ Finish
    \/ PrintMissing
    \/ NotPublished
    \/ BackupSourcePhotos

SpecActions == InitActions /\ [][NextActions]_vars

-----------------------------------------------------------------------------
(* Several working directories: the program run with fixup on an archive   *)
(* of two date directories, the first with one or two photos.              *)

DateDir2 == <<"arch", "2022-01-02">>
PublishDir2 == <<"arch", "2022-01-02", "publish">>

\* a second photo of the first directory: a raw source, its jpeg beside it
SecondPhotoOpts ==
    {{}, In(PublishDir, "DSC2.NEF", Link(Rel(<<"..", "DSC2.NEF">>)))
             \cup In(DateDir, "DSC2.NEF", File(0))
             \cup In(PublishDir, "DSC2.JPG", File(0))}

\* the first service directory: missing, or holding a published link with
\* a stale absolute target
StaleServiceOpts ==
    {{}, One(ServiceDir(1), Dir) \cup In(ServiceDir(1), "published", Dir)
             \cup In(Append(ServiceDir(1), "published"), "DSC1_small.jpg",
                     Link(Abs(Append(OldMount, "DSC1_small.jpg"))))}

SeveralTrees ==
    UNION {
      LET inside == BaseTree \cup jpg \cup o1 \cup second \cup s1
                             \cup One(DateDir2, Dir) \cup One(PublishDir2, Dir)
                             \cup In(PublishDir2, "DSC3.JPG", Link(Rel(<<"..", "DSC3.JPG">>)))
                             \cup In(DateDir2, "DSC3.JPG", File(0))
                             \cup small3
      IN  {inside \cup m : m \in MountOpts(inside)} :
      jpg \in LinkOpts(PublishDir, "DSC1.JPG", <<"..">>) \ {{}},
      o1 \in FileOpts(DateDir, "DSC1.JPG", {0}),
      second \in SecondPhotoOpts,
      s1 \in StaleServiceOpts,
      small3 \in FileOpts(PublishDir2, "DSC3_small.jpg", {0}) }

InitSeveral ==
    /\ \E t \in SeveralTrees : fs = Tree(t)
    /\ pc = "idle"
    /\ run = 0
    /\ queue = <<>>
    /\ root = NoPath
    /\ sources = <<>>
    /\ made = <<>>
    /\ calls = <<>>
    /\ pairs = <<>>
    /\ index = {}
    /\ files = NoFiles
    /\ start = fs
    /\ resizeFailed = FALSE
    /\ args_action = ACTION_FIXUP
    /\ out = <<>>
    /\ hard = {}
    /\ adds = {}
    /\ retry = {}
    /\ replaced = {}

SpecSeveral == InitSeveral /\ [][Next]_vars

-----------------------------------------------------------------------------
(* Faults: a git command that fails, and the process killed between two    *)
(* file system operations, on an archive of two working directories.       *)

\* the first directory holds a jpeg source with a stale absolute link and
\* may hold a stale published link; the old mount is gone or still there
FaultTrees ==
    UNION {
      LET inside == BaseTree \cup In(PublishDir, "DSC1.JPG",
                                     Link(Abs(Append(OldMount, "DSC1.JPG"))))
                             \cup In(DateDir, "DSC1.JPG", File(0))
                             \cup s1
                             \cup One(DateDir2, Dir) \cup One(PublishDir2, Dir)
                             \cup In(PublishDir2, "DSC3.JPG", Link(Rel(<<"..", "DSC3.JPG">>)))
                             \cup In(DateDir2, "DSC3.JPG", File(0))
                             \cup In(PublishDir2, "DSC3_small.jpg", File(0))
      IN  {inside \cup m : m \in MountOpts(inside)} :
      s1 \in StaleServiceOpts }

InitFaults ==
    /\ \E t \in FaultTrees : fs = Tree(t)
    /\ pc = "idle"
    /\ run = 0
    /\ queue = <<>>
    /\ root = NoPath
    /\ sources = <<>>
    /\ made = <<>>
    /\ calls = <<>>
    /\ pairs = <<>>
    /\ index = {}
    /\ files = NoFiles
    /\ start = fs
    /\ resizeFailed = FALSE
    /\ args_action = ACTION_FIXUP
    /\ out = <<>>
    /\ hard = {}
    /\ adds = {}
    /\ retry = {}
    /\ replaced = {}

\* step 6 with a failing "git add -f" that is passed over, as a failing
\* resize command is
AddFilesToRepositoryFails_Logged ==
    /\ pc = "git"
    /\ LET listed == IF files = NoFiles /\ RepositoryCandidates(fs, root) # {}
                     THEN index ELSE files
       IN  \E q \in AddCommands(fs, root, listed) :
           \E done \in SUBSET (AddCommands(fs, root, listed) \ {q}) :
               /\ files' = listed
               /\ adds' = adds \cup done \cup {q}
               /\ index' = index \cup {InWorkTree(ArgsPath, x) : x \in done}
    /\ pc' = "loop"
    /\ UNCHANGED <<fs, run, queue, root, sources, made, calls, pairs, start, resizeFailed,
                   args_action, out, hard, retry, replaced>>

\* step 6 when a git command returns a non-zero status: Git.execute raises
\* ProgramError, which __main__ prints before it exits with status 1.  The
\* command is "git ls-files", or "git add -f" for a path q after the
\* commands for the paths in done have run (glob hands them in any order).
AddFilesToRepositoryFails ==
    /\ pc = "git"
    /\ LET listed == IF files = NoFiles /\ RepositoryCandidates(fs, root) # {}
                     THEN index ELSE files
       IN  \/ /\ files = NoFiles
              /\ RepositoryCandidates(fs, root) # {}
              /\ UNCHANGED <<files, adds, index>>
           \/ \E q \in AddCommands(fs, root, listed) :
              \E done \in SUBSET (AddCommands(fs, root, listed) \ {q}) :
                  /\ files' = listed
                  /\ adds' = adds \cup done \cup {q}
                  /\ index' = index \cup {InWorkTree(ArgsPath, x) : x \in done}
    /\ pc' = "failed"
    /\ UNCHANGED <<fs, run, queue, root, sources, made, calls, pairs, start, resizeFailed,
                   args_action, out, hard, retry, replaced>>

\* the process is killed between two steps of Directory.action_fixup
Killed ==
    /\ pc \in {"small", "links", "sources", "published", "git"}
    /\ pc' = "killed"
    /\ UNCHANGED <<fs, run, queue, root, sources, made, calls, pairs, index, files,
                   start, resizeFailed, args_action, out, hard, adds, retry, replaced>>

\* the process is killed in step 4, between path.unlink() and
\* path.symlink_to(link) of the i-th source
KilledInFixupSourcePhotosLinks ==
    /\ pc = "sources"
    /\ \E i \in 1..Len(sources) :
          LET before == fixup_source_photos_links(fs, SubSeq(sources, 1, i - 1), 1)
              path == sources[i].path
          IN  /\ before.ok
              /\ IsSymlink(before.fs, path)
              /\ before.fs[path].target.abs
              /\ fs' = Unlink(before.fs, path)
              /\ replaced' = replaced \cup before.replaced \cup {path}
    /\ pc' = "killed"
    /\ UNCHANGED <<run, queue, root, sources, made, calls, pairs, index, files,
                   start, resizeFailed, args_action, out, hard, adds, retry>>

\* the process is killed in step 5, between path.unlink() and
\* path.symlink_to(link) of a link of the i-th service, after the links
\* of the services before it and the links in done have been seen to
KilledInFixupPublishedLinks ==
    /\ pc = "published"
    /\ \E i \in 1..Len(known_subdirs) :
          LET d == Append(Append(root, known_subdirs[i]), "published")
              earlier == FixLinks(fs, UNION {GlobSmall(fs,
                             Append(Append(root, known_subdirs[j]), "published")) :
                                j \in 1..(i - 1)})
          IN  /\ earlier.ok
              /\ \E path \in GlobSmall(earlier.fs, d) :
                 \E done \in SUBSET (GlobSmall(earlier.fs, d) \ {path}) :
                     LET before == FixLinks(earlier.fs, done)
                     IN  /\ before.ok
                         /\ IsSymlink(before.fs, path)
                         /\ ~TargetExists(before.fs, Parent(path), before.fs[path].target)
                         /\ fs' = Unlink(before.fs, path)
                         /\ replaced' = replaced \cup earlier.replaced
                                             \cup before.replaced \cup {path}
    /\ pc' = "killed"
    /\ UNCHANGED <<run, queue, root, sources, made, calls, pairs, index, files,
                   start, resizeFailed, args_action, out, hard, adds, retry>>

NextFaults ==
    \/ Start
    \/ NextWorkdir
    \/ Finish
    \/ AddMissingSubdirs
    \/ CreateMissingSmallImages
    \/ AddNewSmallFiles
    \/ FixupSourcePhotosLinks
    \/ FixupPublishedLinks
    \/ AddFilesToRepository
    \/ AddFilesToRepositoryFails
    \/ Killed
    \/ KilledInFixupSourcePhotosLinks
    \/ KilledInFixupPublishedLinks

SpecFaults == InitFaults /\ [][NextFaults]_vars

-----------------------------------------------------------------------------
(* Repetition: the program is run once more than MaxRuns times, with a     *)
(* resize command and a version control system that succeed.               *)

\* the program is started again after MaxRuns runs
StartAgain ==
    /\ run < MaxRuns + 1
    /\ Invoke

\* step 2 when every resize command returns 0
CreateMissingSmallImagesDone ==
    /\ pc = "small"
    /\ LET r == create_missing_small_images(fs, sources,
                     [i \in 1..Len(sources) |-> 0], Now, 1)
       IN  /\ fs' = r.fs
           /\ calls' = calls \o r.calls
    /\ pc' = "links"
    /\ UNCHANGED <<run, queue, root, sources, made, pairs, index, files, start,
                   resizeFailed, args_action, out, hard, adds, retry, replaced>>

NextRepeated ==
    \/ StartAgain
    \/ NextWorkdir
    \/ Finish
    \/ AddMissingSubdirs
    \/ CreateMissingSmallImagesDone
    \/ AddNewSmallFiles
    \/ FixupSourcePhotosLinks
    \/ FixupPublishedLinks
    \/ AddFilesToRepository

SpecRepeated == Init /\ [][NextRepeated]_vars

-----------------------------------------------------------------------------
(* Vocabulary of the properties.                                           *)

\* a run of fixup has gone through every directory and the process has exited
Completed == pc = "idle" /\ run >= 1

\* the tree without its modification times: the entries, their kinds and the
\* targets of the symbolic links
Shape(f) == [p \in DOMAIN f |-> IF f[p].kind = "file" THEN [kind |-> "file"] ELSE f[p]]

Subdir(i) == Append(root, known_subdirs[i])
Published(i) == Append(Subdir(i), "published")
Services == 1..Len(known_subdirs)

SourcePaths == {sources[i].path : i \in 1..Len(sources)}

\* the preview of a source path: <stem>_small.jpg beside it
PreviewOf(path) == Append(Parent(path), Stem(Name(path)) \o "_small.jpg")
PreviewNames == {Name(PreviewOf(p)) : p \in SourcePaths}

OneUp(name) == Rel(<<"..", name>>)
TwoUp(name) == Rel(<<"..", "..", name>>)

\* the links of a directory whose name matches *_small*
SmallLinks(f, d) ==
    {p \in DOMAIN f : Parent(p) = d /\ f[p].kind = "link" /\ MatchSmall(Name(p))}

-----------------------------------------------------------------------------
(* C1.  Idempotence: with resize commands that succeed, a second fixup run *)
(* leaves the tree (entries, kinds, link targets, previews present) as the *)
(* first run left it.  The program does not do this: a source link with a  *)
(* stale absolute target is repaired in step 4, after step 2 has looked    *)
(* for its large artifact, so the preview is made by the second run.       *)
C1_SecondRunChangesNothing ==
    (pc = "idle" /\ run >= 2 /\ ~resizeFailed) => Shape(fs) = Shape(start)

(* C2.  Relative-link invariant as the specification words it: after a     *)
(* complete run every source link and every preview link of a service      *)
(* directory has the target ../<name>, every preview link under published  *)
(* the target ../../<name>, and each of them resolves to an existing file. *)
(* The program does not examine the links a service directory already      *)
(* holds, leaves relative source links as they are, and cannot make a link *)
(* resolve whose file is gone.                                             *)
C2_EveryLinkRelativeAndResolving ==
    Completed =>
        /\ \A s \in Scan(fs, root) :
              fs[s.path].target = OneUp(Name(s.path)) /\ Exists(fs, s.path)
        /\ \A i \in Services : \A p \in SmallLinks(fs, Subdir(i)) :
              fs[p].target = OneUp(Name(p)) /\ Exists(fs, p)
        /\ \A i \in Services : \A p \in SmallLinks(fs, Published(i)) :
              fs[p].target = TwoUp(Name(p)) /\ Exists(fs, p)

(* C2, amended.  After a complete run: no source link has an absolute      *)
(* target; every preview link the run created in a service directory has   *)
(* the target ../<name> and resolves to the preview, a file of root; every *)
(* preview link under published either resolves or has the target          *)
(* ../../<name>.                                                           *)
C2_LinksAfterRun ==
    Completed =>
        /\ \A s \in Scan(fs, root) : ~fs[s.path].target.abs
        /\ \A i \in Services : \A p \in SmallLinks(fs, Subdir(i)) :
              p \notin DOMAIN start =>
                 /\ fs[p].target = OneUp(Name(p))
                 /\ Real(fs, p, MaxFollow) = Append(root, Name(p))
                 /\ fs[Append(root, Name(p))].kind = "file"
        /\ \A i \in Services : \A p \in SmallLinks(fs, Published(i)) :
              Exists(fs, p) \/ fs[p].target = TwoUp(Name(p))

\* a run that made an absolute source link relative, created a preview link
\* in a service directory and replaced a dangling link under published
C2_Witness ==
    /\ Completed
    /\ \E s \in Scan(fs, root) : start[s.path].target.abs
    /\ \E i \in Services : \E p \in SmallLinks(fs, Subdir(i)) : p \notin DOMAIN start
    /\ \E i \in Services : \E p \in SmallLinks(fs, Published(i)) :
          start[p].target.abs /\ fs[p].target = TwoUp(Name(p))

(* C3.  Previews distributed after one run, as the specification words    *)
(* it: every source whose preview exists has the preview as a plain file   *)
(* of root, and every service directory holds a symlink of that name with  *)
(* the target ../<name>, unless the name is present under its published    *)
(* directory.  A service directory that already holds an entry of that     *)
(* name keeps it, whatever its target.                                     *)
C3_EveryServiceLinksPreview ==
    Completed =>
        \A s \in SourcePaths :
            Exists(fs, PreviewOf(s)) =>
               /\ fs[PreviewOf(s)].kind = "file"
               /\ \A i \in Services :
                     LET name == Name(PreviewOf(s))
                     IN  Append(Published(i), name) \notin DOMAIN fs =>
                            /\ Append(Subdir(i), name) \in DOMAIN fs
                            /\ fs[Append(Subdir(i), name)] = Link(OneUp(name))

(* C3, amended.  After one run, every source whose preview exists has the  *)
(* preview as a plain file of root, and every service directory holds an   *)
(* entry of that name: the entry it held before the run, unchanged, or,    *)
(* when it held none, a symlink with the target ../<name>; unless the name *)
(* was present under its published directory, and then none is added.      *)
C3_PreviewsDistributed ==
    Completed =>
        \A s \in SourcePaths :
            Exists(fs, PreviewOf(s)) =>
               /\ fs[PreviewOf(s)].kind = "file"
               /\ \A i \in Services :
                     LET name == Name(PreviewOf(s))
                         link == Append(Subdir(i), name)
                     IN  IF link \in DOMAIN start THEN fs[link] = start[link]
                         ELSE IF Append(Published(i), name) \in DOMAIN start
                         THEN link \notin DOMAIN fs
                         ELSE link \in DOMAIN fs /\ fs[link] = Link(OneUp(name))

\* a first run on a directory without service directories that made the
\* preview and linked it into every service directory
C3_Witness ==
    /\ Completed
    /\ run = 1
    /\ \A i \in Services : Subdir(i) \notin DOMAIN start
    /\ \E s \in SourcePaths :
          /\ PreviewOf(s) \notin DOMAIN start
          /\ Exists(fs, PreviewOf(s))
          /\ \A i \in Services :
                /\ Append(Subdir(i), Name(PreviewOf(s))) \in DOMAIN fs
                /\ fs[Append(Subdir(i), Name(PreviewOf(s)))] = Link(OneUp(Name(PreviewOf(s))))

(* C4.  Distribution dedup: step 3 creates no link in a service directory  *)
(* for a preview name that the service directory or its published          *)
(* directory already holds (an entry of that name stays as it is), also    *)
(* for the services reached after others have received links; and every   *)
(* (service directory, names) pair it works on has a non-empty set of      *)
(* names and a service directory that exists.                              *)
C4_DistributionDedup ==
    [][pc = "links" =>
          /\ \A i \in Services : \A name \in PreviewNames :
                LET link == Append(Subdir(i), name)
                IN  /\ link \in DOMAIN fs => (link \in DOMAIN fs' /\ fs'[link] = fs[link])
                    /\ (link \notin DOMAIN fs /\ Append(Published(i), name) \in DOMAIN fs)
                          => link \notin DOMAIN fs'
          /\ \A k \in (Len(pairs) + 1)..Len(pairs') :
                /\ pairs'[k].names # {}
                /\ \E i \in Services : pairs'[k].subdir = Subdir(i)
                /\ IsDir(fs, pairs'[k].subdir)]_vars

\* step 3 has linked a preview into the first service directory and not
\* into the second, which holds the name under published only
C4_Witness ==
    /\ pc = "sources"
    /\ pairs # <<>>
    /\ \E name \in PreviewNames :
          /\ Append(Subdir(1), name) \notin DOMAIN start
          /\ Append(Subdir(1), name) \in DOMAIN fs
          /\ Append(Published(2), name) \in DOMAIN start
          /\ Append(Subdir(2), name) \notin DOMAIN fs

\* the resize commands run for a source
ResizeCalls(cs, path) == {k \in DOMAIN cs : cs[k].source = path}

\* the previews written by the successful commands for the sources before
\* the i-th
WrittenBefore(cs, i) ==
    {cs[k].small : k \in {n \in DOMAIN cs : cs[n].ret = 0
                             /\ \E j \in 1..(i - 1) : sources[j].path = cs[n].source}}

\* the tree as it is when the loop examines the i-th source
Examined(f, cs, i) ==
    [p \in DOMAIN f \cup WrittenBefore(cs, i) |->
        IF p \in WrittenBefore(cs, i) THEN File(Now) ELSE f[p]]

(* C5.  Preview freshness: in step 2, a source whose large artifact exists *)
(* has the resize command run once, as CREATE when its small does not      *)
(* exist and as UPDATE when its small exists and is older than its large,  *)
(* and not at all when its small exists and is not older; a source whose   *)
(* large artifact does not exist has no command run.  Existence and times  *)
(* are those of the moment the loop examines the source: the previews the  *)
(* commands for the sources before it have written are in place.           *)
C5_PreviewFreshness ==
    [][pc = "small" =>
          \A i \in 1..Len(sources) :
              LET g == Examined(fs, calls', i)
                  large == Large(g, sources[i])
                  small == PreviewOf(sources[i].path)
                  ran == ResizeCalls(calls', sources[i].path)
                  as == {calls'[k].action : k \in ran}
              IN  /\ Cardinality(ran) <= 1
                  /\ \A k \in ran : calls'[k].large = large /\ calls'[k].small = small
                  /\ IF ~Exists(g, large) THEN ran = {}
                     ELSE IF ~Exists(g, small) THEN as = {CREATE}
                     ELSE IF Mtime(g, small) < Mtime(g, large) THEN as = {UPDATE}
                     ELSE ran = {}]_vars

\* step 2 has run one command as UPDATE and has left alone a source whose
\* large artifact exists and is not newer than its small
C5_Witness ==
    /\ pc = "links"
    /\ \E k \in DOMAIN calls : calls[k].action = UPDATE
    /\ \E i \in 1..Len(sources) :
          /\ ResizeCalls(calls, sources[i].path) = {}
          /\ Exists(start, Large(start, sources[i]))
          /\ Exists(start, PreviewOf(sources[i].path))
          /\ Mtime(start, PreviewOf(sources[i].path)) = Mtime(start, Large(start, sources[i]))

C7_SourceLinkMadeRelativeSameFile ==
    [][/\ pc = "sources" =>
             \A i \in 1..Len(sources) :
                 LET p == sources[i].path
                 IN  /\ p \in DOMAIN fs'
                     /\ fs[p].target.abs =>
                           /\ fs'[p] = Link(OneUp(Name(p)))
                           /\ Exists(fs, p) =>
                                 Real(fs', p, MaxFollow) = Real(fs, p, MaxFollow)
                     /\ ~fs[p].target.abs => fs'[p] = fs[p]
       /\ (pc' = "idle" /\ run' >= 1) =>
             \A s \in Scan(fs', root') : ~fs'[s.path].target.abs]_vars

(* C7, amended.  Step 4 replaces every source link that has an absolute    *)
(* target by one with the target ../<name>, whatever the absolute target   *)
(* designated, and leaves a source link with a relative target as it is;   *)
(* after a run no source link has an absolute target.                      *)
C7_SourceLinkMadeRelative ==
    [][/\ pc = "sources" =>
             \A i \in 1..Len(sources) :
                 LET p == sources[i].path
                 IN  /\ p \in DOMAIN fs'
                     /\ fs[p].target.abs => fs'[p] = Link(OneUp(Name(p)))
                     /\ ~fs[p].target.abs => fs'[p] = fs[p]
       /\ (pc' = "idle" /\ run' >= 1) =>
             \A s \in Scan(fs', root') : ~fs'[s.path].target.abs]_vars

\* step 4 has replaced the absolute target of one source link and left the
\* relative target of another
C7_Witness ==
    /\ pc = "published"
    /\ \E i, j \in 1..Len(sources) :
          /\ start[sources[i].path].target.abs
          /\ fs[sources[i].path] = Link(OneUp(Name(sources[i].path)))
          /\ ~start[sources[j].path].target.abs
          /\ fs[sources[j].path] = start[sources[j].path]

\* the service directories and their published children, in service order
ExpectedSubdirs ==
    [k \in 1..(2 * Len(known_subdirs)) |->
        IF k % 2 = 1 THEN Subdir((k + 1) \div 2) ELSE Published(k \div 2)]

MissingAtStart == SelectSeq(ExpectedSubdirs, LAMBDA p : ~Exists(start, p))

(* C8.  Service directories, as the specification words it: after a run    *)
(* root/<service> and root/<service>/published exist as directories for    *)
(* every service, and the missing ones have been created in the order of   *)
(* the services, each service directory before its published child.  The  *)
(* program tests that a name exists, not that it is a directory: a plain   *)
(* file named published is there after the run as it was before.           *)
C8_ServiceDirectoriesAreDirectories ==
    Completed =>
        /\ \A i \in Services : IsDir(fs, Subdir(i)) /\ IsDir(fs, Published(i))
        /\ made = MissingAtStart

(* C8, amended.  After a run, for every service, root/<service> exists as  *)
(* a directory and root/<service>/published exists: as a directory, or as  *)
(* the entry that is no directory which held the name before the run, left *)
(* as it was.  The missing ones have been created in the order of the      *)
(* services, each service directory before its published child.            *)
C8_ServiceDirectories ==
    Completed =>
        /\ \A i \in Services :
              /\ IsDir(fs, Subdir(i))
              /\ Exists(fs, Published(i))
              /\ \/ IsDir(fs, Published(i))
                 \/ /\ Published(i) \in DOMAIN start
                    /\ ~IsDir(start, Published(i))
                    /\ fs[Published(i)] = start[Published(i)]
        /\ made = MissingAtStart
        /\ \A k \in DOMAIN made : fs[made[k]] = Dir

\* a run on a directory that held the first service directory without its
\* published child and nothing of the second: three directories created
C8_Witness ==
    /\ Completed
    /\ Subdir(1) \in DOMAIN start
    /\ made = <<Published(1), Subdir(2), Published(2)>>

\* the symbolic links of a directory
LinksIn(f, d) == {p \in DOMAIN f : Parent(p) = d /\ f[p].kind = "link"}

\* the type the claim gives a symlink of this name
TypeOfName(name) ==
    IF name \in RawNames \cup {"x.nef"} THEN SOURCE_RAW
    ELSE IF name \in JpegNames THEN SOURCE_JPEG
    ELSE NoType

Scanned == {sources'[i] : i \in 1..Len(sources')}

(* C9.  Classification, as the specification words it: scanning makes an   *)
(* immediate child of root a source iff it is a symlink whose suffix is,   *)
(* in any letter case, .nef or .cr3 (a raw source) or .jpg or .jpeg (a     *)
(* jpeg source), and it changes nothing.  The program leaves out every     *)
(* entry that is a directory before it classifies, and a symlink that      *)
(* resolves to a directory is one.                                         *)
C9_SourceIffSymlinkWithSuffix ==
    [][(pc = "loop" /\ queue # <<>>) =>
          /\ Scanned = {[path |-> p, typ |-> TypeOfName(Name(p))] :
                          p \in {q \in LinksIn(fs, root') : TypeOfName(Name(q)) # NoType}}
          /\ Len(sources') = Cardinality(Scanned)
          /\ fs' = fs]_vars

(* C9, amended.  Scanning makes an immediate child of root a source iff it *)
(* is a symlink that does not resolve to a directory and whose suffix is,  *)
(* in any letter case, .nef or .cr3 (a raw source) or .jpg or .jpeg (a     *)
(* jpeg source); every other entry is no source; scanning changes nothing. *)
C9_SourceIffFileSymlinkWithSuffix ==
    [][(pc = "loop" /\ queue # <<>>) =>
          /\ Scanned = {[path |-> p, typ |-> TypeOfName(Name(p))] :
                          p \in {q \in LinksIn(fs, root') :
                                    /\ TypeOfName(Name(q)) # NoType
                                    /\ ~(Exists(fs, q) /\ fs[Real(fs, q, MaxFollow)] = Dir)}}
          /\ Len(sources') = Cardinality(Scanned)
          /\ fs' = fs]_vars

\* a scan has found a raw source under a suffix in mixed case beside the
\* raw source x.nef
C9_Witness ==
    /\ pc = "subdirs"
    /\ Len(sources) = 2
    /\ \E i \in 1..Len(sources) :
          Name(sources[i].path) \in {"a.Nef", "b.cR3"} /\ sources[i].typ = SOURCE_RAW

\* a name of four digits, a hyphen, two digits, a hyphen, two digits
NamedYearMonthDay(name) ==
    /\ Len(name) = 10
    /\ \A i \in {1, 2, 3, 4, 6, 7, 9, 10} : \E d \in 1..10 : Char(name, i) = Char(Digits, d)
    /\ Char(name, 5) = "-"
    /\ Char(name, 8) = "-"

Buckets == {Append(ArgsPath, Months[i]) : i \in 1..Len(Months)} \cap DOMAIN fs

Candidates ==
    {p \in DOMAIN fs :
        /\ Len(p) > 0
        /\ NamedYearMonthDay(Name(p))
        /\ Parent(p) \in (IF Buckets = {} THEN {ArgsPath} ELSE Buckets)}

Contribution(c) ==
    LET lettered == SelectSeq(Letters, LAMBDA l : Append(c, l) \in DOMAIN fs)
    IN  IF lettered = <<>> THEN <<c>>
        ELSE [k \in 1..Len(lettered) |-> Append(c, lettered[k])]

RECURSIVE Contributions(_)
Contributions(cs) ==
    IF cs = <<>> THEN <<>> ELSE Contribution(Head(cs)) \o Contributions(Tail(cs))

Discovered ==
    LET roots == SelectSeq(Contributions(Sorted(Candidates)),
                           LAMBDA r : Append(r, "publish") \in DOMAIN fs)
    IN  [k \in 1..Len(roots) |-> Append(roots[k], "publish")]

(* C10.  Discovery: workdirs yields R/publish, for the roots R that have a *)
(* publish entry, in this order: the scan bases are the month buckets      *)
(* 01..12 that exist, or the root when there is none; the candidates are   *)
(* the entries of the scan bases named YYYY-MM-DD, in sorted path order;   *)
(* each candidate contributes its lettered sub-roots a..h that exist, in   *)
(* letter order, or itself when it has none.  The program also takes an    *)
(* entry whose name is a date followed by a newline.                       *)
C10_WorkdirsSequence ==
    (pc = "loop" /\ root = NoPath) => queue = Discovered

-----------------------------------------------------------------------------
\* what the step just taken has printed
Printed == {out'[k] : k \in (Len(out) + 1)..Len(out')}

\* each printed path was printed once
PrintedOnce == Len(out') - Len(out) = Cardinality(Printed)

\* an entry of that name exists beside the path
Beside(f, p, name) == Exists(f, Append(Parent(p), name))

(* C11.  The action missing prints, for a publish directory, exactly the   *)
(* paths of the sources whose large artifact does not exist, each once: a  *)
(* raw source iff neither <stem>.JPG nor <stem>.jpg exists beside it, a    *)
(* jpeg source iff no <stem>_processed.<ext> (jpg, JPG, jpeg, JPEG) exists *)
(* beside it and its own link does not resolve; and it changes no entry of *)
(* the file system.                                                        *)
C11_PrintMissing ==
    [][(pc = "loop" /\ args_action = ACTION_MISSING /\ queue # <<>>) =>
          /\ fs' = fs
          /\ PrintedOnce
          /\ Printed \subseteq {sources'[i].path : i \in 1..Len(sources')}
          /\ \A i \in 1..Len(sources') :
                LET p == sources'[i].path
                    stem == Stem(Name(p))
                IN  IF sources'[i].typ = SOURCE_RAW
                    THEN p \in Printed <=>
                            /\ ~Beside(fs, p, stem \o ".JPG")
                            /\ ~Beside(fs, p, stem \o ".jpg")
                    ELSE p \in Printed <=>
                            /\ \A ext \in {"jpg", "JPG", "jpeg", "JPEG"} :
                                  ~Beside(fs, p, stem \o "_processed." \o ext)
                            /\ ~Exists(fs, p)]_vars

\* a run of missing has printed a raw source that has no jpeg beside it
\* and a dangling jpeg source, and has kept silent about a raw source
\* whose link dangles while a jpeg is beside it or about a jpeg source
\* with a processed photo
C11_Witness ==
    /\ args_action = ACTION_MISSING
    /\ Completed
    /\ \E i, j \in 1..Len(sources) :
          /\ sources[i].typ = SOURCE_RAW
          /\ sources[j].typ = SOURCE_JPEG
          /\ \/ /\ \E k \in 1..Len(out) : out[k] = sources[i].path
                /\ \A k \in 1..Len(out) : out[k] # sources[j].path
                /\ ~Exists(fs, sources[j].path)
                /\ Beside(fs, sources[j].path, "DSC2_processed.JPEG")
             \/ /\ \A k \in 1..Len(out) : out[k] # sources[i].path
                /\ ~Exists(fs, sources[i].path)
                /\ \E k \in 1..Len(out) : out[k] = sources[j].path

(* C12.  The action given a service name prints, for a publish directory,  *)
(* exactly the symbolic links that are immediate children of               *)
(* root/<service>, each once, and so never a link under                    *)
(* root/<service>/published; it prints nothing when root/<service> does    *)
(* not exist; and it changes no entry of the file system.                  *)
C12_NotPublished ==
    [][(pc = "loop" /\ args_action \notin known_actions /\ queue # <<>>) =>
          LET d == Append(Head(queue), args_action)
          IN  /\ fs' = fs
              /\ PrintedOnce
              /\ Printed = {p \in DOMAIN fs : Parent(p) = d /\ fs[p].kind = "link"}
              /\ \A p \in Printed : Parent(p) # Append(d, "published")
              /\ ~Exists(fs, d) => Printed = {}]_vars

\* a run for a service has printed a link of the service directory and
\* not the links its published directory holds
C12_Witness ==
    /\ args_action \notin known_actions
    /\ Completed
    /\ \E k \in 1..Len(out) : Name(out[k]) = "DSC1_small.jpg"
    /\ \E p \in DOMAIN fs :
          /\ Parent(p) = Append(Append(root, args_action), "published")
          /\ fs[p].kind = "link"
          /\ \A k \in 1..Len(out) : out[k] # p

(* C13.  Backup: after the action backup has run on a publish directory,   *)
(* root/.backup exists, and for every source whose link resolves           *)
(* root/.backup/<name> exists: the entry that was there before, untouched, *)
(* or a new name of the real file the source link points to (a hard link,  *)
(* the same inode); and a second run of backup changes nothing.  The       *)
(* program gives the new name to the symbolic link, not to the file.       *)
C13_BackupHardLinksRealFile ==
    (args_action = ACTION_BACKUP /\ Completed /\ root # NoPath) =>
        /\ Exists(fs, Append(root, ".backup"))
        /\ \A i \in 1..Len(sources) :
              LET p == sources[i].path
                  backup == Append(Append(root, ".backup"), Name(p))
              IN  Exists(start, p) =>
                     /\ backup \in DOMAIN fs
                     /\ backup \in DOMAIN start => fs[backup] = start[backup]
                     /\ backup \notin DOMAIN start =>
                           /\ fs[backup].kind = "file"
                           /\ <<backup, Real(start, p, MaxFollow)>> \in hard
        /\ run = 2 => fs = start

-----------------------------------------------------------------------------
\* the resize commands of this run that failed for a source of the
\* directory being reconciled and whose preview is absent
FailedAbsent(cs, f) ==
    {k \in DOMAIN cs : /\ cs[k].ret # 0
                        /\ Parent(cs[k].source) = root
                        /\ ~Exists(f, cs[k].small)}

\* step 2 goes on after a command has failed: the sources after that one
\* are examined and have their command run when one is due, and step 3
\* follows
GoesOnAfterFailure ==
    pc = "small" =>
        /\ pc' = "links"
        /\ \A k \in DOMAIN calls' : \A j, i \in 1..Len(sources) :
              (/\ calls'[k].ret # 0
               /\ sources[j].path = calls'[k].source
               /\ j < i) =>
                  LET g == Examined(fs, calls', i)
                      large == Large(g, sources[i])
                      small == PreviewOf(sources[i].path)
                  IN  (/\ Exists(g, large)
                       /\ \/ ~Exists(g, small)
                          \/ Mtime(g, small) < Mtime(g, large)) =>
                          ResizeCalls(calls', sources[i].path) # {}

\* steps 3 to 6 run after a failed command and the next working directory
\* is taken; step 3 makes no entry of the name of a preview that is absent
\* because its command failed
RunGoesOnAfterFailure ==
    (\E k \in DOMAIN calls : calls[k].ret # 0) =>
        /\ pc = "links" => pc' = "sources"
        /\ pc = "sources" => pc' = "published"
        /\ pc = "published" => pc' = "git"
        /\ pc = "git" => pc' = "loop" /\ queue' = queue
        /\ (pc = "loop" /\ queue # <<>>) => pc' = "subdirs" /\ root' = Head(queue)
        /\ pc = "links" =>
              \A k \in FailedAbsent(calls, fs) : \A p \in DOMAIN fs' \ DOMAIN fs :
                  Name(p) # Name(calls[k].small)

(* C14.  A resize command that returns a non-zero status does not abort    *)
(* the run, as the specification words it: the sources after it are        *)
(* examined and resized if needed, steps 3 to 6 run, the later working     *)
(* directories are reconciled, the preview that is still absent is linked  *)
(* into no service directory in this run, and the next run runs the        *)
(* command for it again.  The next run does not when step 4 of this run    *)
(* has replaced the absolute source link by one that dangles.              *)
C14_ResizeFailureRetried ==
    [][/\ GoesOnAfterFailure
       /\ RunGoesOnAfterFailure
       /\ pc = "small" =>
             \A small \in retry :
                 Parent(small) = root =>
                    \E k \in DOMAIN calls' : calls'[k].small = small]_vars

(* C14, amended.  A resize command that returns a non-zero status does not *)
(* abort the run: the sources after it are examined and resized if needed, *)
(* steps 3 to 6 run, the later working directories are reconciled, the     *)
(* preview that is still absent is linked into no service directory in     *)
(* this run, and the next run runs the command for it again if the large   *)
(* artifact of a source of that preview exists when it examines it.        *)
C14_ResizeFailure ==
    [][/\ GoesOnAfterFailure
       /\ RunGoesOnAfterFailure
       /\ pc = "small" =>
             \A small \in retry :
                 (/\ Parent(small) = root
                  /\ \E i \in 1..Len(sources) :
                        /\ PreviewOf(sources[i].path) = small
                        /\ Exists(fs, Large(fs, sources[i]))) =>
                    \E k \in DOMAIN calls' : calls'[k].small = small]_vars

\* the second run has run the command again for a preview of the second
\* working directory whose command failed in the first run, and in the
\* first directory a command had failed too
C14_Witness ==
    /\ pc = "links"
    /\ run = 2
    /\ root = PublishDir2
    /\ \E k \in DOMAIN calls : calls[k].small \in retry /\ Parent(calls[k].small) = root
    /\ \E small \in retry : Parent(small) = PublishDir

-----------------------------------------------------------------------------
(* C15.  A directory creation of step 1 that fails because root/<service>  *)
(* is a plain file is skipped and the run continues: step 2 follows, and   *)
(* the subdirectories of the other services are there after step 1.  The   *)
(* program does not catch the exception of mkdir, which ends the run.      *)
C15_MkdirFailureSkipped ==
    [][(/\ pc = "subdirs"
        /\ \E i \in Services : Subdir(i) \in DOMAIN fs /\ fs[Subdir(i)].kind = "file") =>
          /\ pc' = "small"
          /\ \A j \in Services :
                (Subdir(j) \notin DOMAIN fs \/ fs[Subdir(j)].kind = "dir") =>
                    IsDir(fs', Subdir(j)) /\ IsDir(fs', Published(j))]_vars

(* C16.  A git command that fails in step 6 is fatal for the whole run:    *)
(* when "git add -f" has been issued for a path that is not tracked after  *)
(* the step, the process has ended with ProgramError; when it ends so, the *)
(* tree is as steps 1 to 5 left it (the directories made are there,        *)
(* nothing is rolled back), the working directories still in the queue     *)
(* are as they were when the run started, and nothing but a new            *)
(* invocation follows.                                                     *)
C16_VcsFailureFatal ==
    [][/\ (/\ pc = "git"
           /\ \E q \in adds' \ adds : InWorkTree(ArgsPath, q) \notin index') =>
             pc' = "failed"
       /\ pc' = "failed" =>
             /\ fs' = fs
             /\ queue' = queue
             /\ \A k \in DOMAIN made : made[k] \in DOMAIN fs'
             /\ \A i \in DOMAIN queue :
                   \A p \in Below(fs', queue[i]) \cup Below(start, queue[i]) :
                       /\ p \in DOMAIN fs' \cap DOMAIN start
                       /\ fs'[p] = start[p]
       /\ pc = "failed" => run' = run + 1]_vars

\* a run has ended with ProgramError in the first working directory, after
\* it made directories there and some paths were added, the second
\* working directory still in the queue
C16_Witness ==
    /\ pc = "failed"
    /\ queue # <<>>
    /\ made # <<>>
    /\ index # {}
    /\ \E q \in adds : InWorkTree(ArgsPath, q) \notin index

(* C17.  A fixup run that is interrupted between two file system           *)
(* operations loses no link: every symbolic link the tree held when the    *)
(* run started is there when the process is gone.  Steps 4 and 5 replace   *)
(* a link by unlink followed by symlink_to, and a process killed between   *)
(* the two leaves no link of that name; a source link lost so is found by  *)
(* no later run, which takes its sources from the links.                   *)
C17_InterruptedRunLosesNoLink ==
    pc = "killed" =>
        \A p \in DOMAIN start : start[p].kind = "link" => p \in DOMAIN fs

(* C18.  A mkdir of step 1 whose path already exists, a dangling symbolic  *)
(* link holding the name of a service directory, is a no-op: step 1 ends   *)
(* without an error and step 2 follows.  The program calls mkdir() for     *)
(* every path that exists() denies, and mkdir raises FileExistsError.      *)
C18_ExistingPathIsNoOp ==
    [][(/\ pc = "subdirs"
        /\ \E i \in Services : Subdir(i) \in DOMAIN fs /\ fs[Subdir(i)].kind = "link"
                                  /\ ~Exists(fs, Subdir(i))) =>
          pc' = "small"]_vars

(* C19.  Step 6 registers the final link set: after it every symbolic link *)
(* under root whose name has an extension is tracked, and "git add -f" has *)
(* been issued for exactly those of them that were not tracked before.     *)
(* The program compares the path it built, args.path included, with the    *)
(* paths of "git ls-files", which are relative to the work tree: it issues *)
(* the command for the tracked paths too.                                  *)
C19_LinksRegisteredOnce ==
    [][(pc = "git" /\ pc' = "loop") =>
          \A q \in RepositoryCandidates(fs, root) :
              /\ InWorkTree(ArgsPath, q) \in index'
              /\ q \in adds' <=> InWorkTree(ArgsPath, q) \notin index]_vars

(* C20.  Step 5 sets the target of a link under root/<service>/published   *)
(* whose name matches *_small* to ../../<name> when the link does not      *)
(* resolve to an existing file, whether or not the new target exists, and  *)
(* leaves it as it is when it resolves, to whatever file and by an         *)
(* absolute target too; it changes nothing else.                           *)
C20_PublishedLinkChangedIffDangling ==
    [][pc = "published" =>
          /\ DOMAIN fs' = DOMAIN fs
          /\ \A p \in DOMAIN fs :
                fs'[p] = IF /\ \E i \in Services : p \in SmallLinks(fs, Published(i))
                            /\ ~Exists(fs, p)
                         THEN Link(TwoUp(Name(p)))
                         ELSE fs[p]]_vars

\* step 5 has replaced a dangling absolute link under published by
\* ../../<name>, which dangles too, no preview of that name being in root
C20_Witness ==
    /\ pc = "git"
    /\ \E i \in Services : \E p \in SmallLinks(start, Published(i)) :
          /\ start[p].target.abs
          /\ p \in DOMAIN fs
          /\ fs[p] = Link(TwoUp(Name(p)))
          /\ ~Exists(fs, p)
          /\ Append(root, Name(p)) \notin DOMAIN fs

(* C21.  Every step of fixup is a no-op on what already satisfies its     *)
(* postcondition: no mkdir for a directory that exists, no resize command  *)
(* for a preview that is not older than its large artifact, no unlink and  *)
(* symlink_to for a source link that is relative or for a link under       *)
(* published whose target is ../../<name> already.  Step 5 tests that the  *)
(* target exists, not what the target is: a link ../../<name> with no      *)
(* preview of that name in root is unlinked and made again in every run.   *)
C21_CorrectElementNeverRewritten ==
    [][/\ \A k \in (Len(made) + 1)..Len(made') : ~Exists(fs, made'[k])
       /\ pc = "small" =>
             \A i \in 1..Len(sources) :
                 LET g == Examined(fs, calls', i)
                     small == PreviewOf(sources[i].path)
                 IN  (/\ Exists(g, small)
                      /\ Exists(g, Large(g, sources[i]))
                      /\ Mtime(g, small) >= Mtime(g, Large(g, sources[i])))
                        => ResizeCalls(calls', sources[i].path) = {}
       /\ \A p \in replaced' \ replaced :
             /\ p \in DOMAIN fs
             /\ fs[p].kind = "link"
             /\ p \in SourcePaths => fs[p].target.abs
             /\ (\E i \in Services : Parent(p) = Published(i))
                   => fs[p].target # TwoUp(Name(p))]_vars

(* C22.  Repeated fixup reaches a fixed point, the resize commands and    *)
(* the version control system succeeding and no large artifact being       *)
(* newer than the time of the run: the run after the second changes no     *)
(* entry of the tree, no target of a link, no time of a preview and no     *)
(* tracked path, also when the first run made a stale source link relative *)
(* and the second run therefore made and distributed its preview.          *)
C22_FixedPointAfterTwoRuns ==
    [][run > 2 => (fs' = fs /\ index' = index)]_vars

\* the run after the second has ended on a tree it has left as it was, in
\* which the second run had made the preview of a source whose link the
\* first run had made relative, and had linked it into the services
C22_Witness ==
    /\ pc = "idle"
    /\ run = 3
    /\ fs = start
    /\ \E i \in 1..Len(sources) :
          LET path == sources[i].path
              small == PreviewOf(path)
          IN  /\ fs[path] = Link(OneUp(Name(path)))
              /\ small \in DOMAIN fs
              /\ fs[small] = File(MaxMtime + 2)
              /\ \A k \in Services :
                    /\ Append(Subdir(k), Name(small)) \in DOMAIN fs
                    /\ fs[Append(Subdir(k), Name(small))] = Link(OneUp(Name(small)))
              /\ \E q \in RepositoryCandidates(fs, root) : InWorkTree(ArgsPath, q) \in index

\* the previews the resize commands of this run have written
Regenerated == {calls[k].small : k \in {n \in DOMAIN calls : calls[n].ret = 0}}

(* C23.  A fixup run that completes removes nothing: every path the tree   *)
(* held when the run started is there after it, as an entry of the same    *)
(* kind; a plain file is as it was unless it is a preview <stem>_small.jpg *)
(* a resize command of the run has written; and a symbolic link that was   *)
(* directly in root/<service> has the target it had.                       *)
C23_CompletedRunRemovesNothing ==
    Completed =>
        /\ DOMAIN start \subseteq DOMAIN fs
        /\ \A p \in DOMAIN start \cap DOMAIN fs :
              /\ fs[p].kind = start[p].kind
              /\ (start[p].kind = "file" /\ fs[p] # start[p]) =>
                    /\ p \in Regenerated
                    /\ \E q \in SourcePaths : p = PreviewOf(q)
              /\ (start[p].kind = "link" /\ \E i \in Services : Parent(p) = Subdir(i))
                    => fs[p] = start[p]

\* a run has completed that replaced a link under published in step 5 and
\* a source link in step 4, on a tree that held a dangling link directly in
\* a service directory, which is as it was
C23_Witness ==
    /\ Completed
    /\ \E p \in replaced : fs[p] # start[p] /\ p \in SourcePaths
    /\ \E p \in replaced : fs[p] # start[p] /\ \E i \in Services : Parent(p) = Published(i)
    /\ \E i \in Services : \E p \in DOMAIN start :
          /\ Parent(p) = Subdir(i)
          /\ start[p].kind = "link"
          /\ ~Exists(start, p)
          /\ fs[p] = start[p]

=============================================================================
